---- MODULE Spec2Model ----
(***************************************************************************)
(* Pipe CRC capture sessions of intel-gpu-tools: the session object        *)
(* (struct _igt_pipe_crc), its construction, start/stop/free, the read     *)
(* orchestrator (read_crc, read_one_crc, igt_pipe_crc_get_crcs) and the    *)
(* one-shot igt_pipe_crc_collect_crc, as written in                        *)
(* src/tests/kms_writeback.c lines 411-934.                                *)
(*                                                                         *)
(* The program is single threaded.  One step of the model is one public    *)
(* call that needs no data read, or one call of read_crc inside an         *)
(* operation that reads (each read is a system call whose outcome the      *)
(* kernel decides).  The kernel's answers (which ABI the debugfs exposes,  *)
(* whether a write or an open succeeds, what a read returns) are drawn     *)
(* with \E from the sets below.                                            *)
(***************************************************************************)
EXTENDS Integers, Sequences, FiniteSets, TLC

\* ------------------------------------------------------------- bounds
\* Commands on the control file after which a client makes no further call.
MaxLog == 3
\* Data lines the kernel delivers on the data channel in one run.
MaxLines == 3
\* Largest n_crcs a client passes to igt_pipe_crc_get_crcs.
MaxCrcs == 2

VARIABLES
    kernel,       \* ABI the device's debugfs exposes: "generic", "legacy", "none"
    obj,          \* the igt_pipe_crc_t pointer: "null", "live", "freed"
    pipe_crc,     \* struct _igt_pipe_crc
    fdt,          \* the process's descriptor table: fd -> kind of open file
    ctlLog,       \* commands written to the control file, in order
    consumed,     \* data lines read from the data channel so far
    out,          \* the caller's igt_crc_t of read_one_crc / collect_crc
    crcs,         \* the array igt_pipe_crc_get_crcs allocated
    n,            \* igt_pipe_crc_get_crcs: n (its return value once it returned)
    n_crcs,       \* igt_pipe_crc_get_crcs: n_crcs
    oob,          \* a record was stored outside the slots of crcs
    pc,           \* where the program is
    abortReason,  \* which assertion, watchdog or fault ended the process
    lastCall,     \* the latest public call (history)
    callStart,    \* value of consumed when the latest public call began (history)
    lastRet,      \* what the latest read_crc returned (history)
    sawZero,      \* the latest get_crcs call had a read_crc returning 0 (history)
    err,          \* igt_pipe_crc_do_start: errno of the latest open of the data file (history)
    doStartRet,   \* what the latest igt_pipe_crc_do_start returned (history)
    wasCapturing, \* the session was Capturing when the latest public call began (history)
    scenario,     \* how far the calls so far follow new, start, readOne, stop, free
                  \* on a generic session, pipe B, source auto (-1: they do not)
    handlerRan,   \* pipe_crc_exit_handler has run
    fcall,        \* a call of a function that reads no session: its name and arguments
    fret,         \* <<what that call gave>> (<<>>: it has not returned)
    other,        \* <<an earlier session of the same pipe, still alive>> (<<>>: none)
    timer,        \* the watchdog of igt_set_timeout: "off" or "armed"
    bytes_read    \* read_crc: what its read gave ("none": no read_crc is past its read)

vars == <<kernel, obj, pipe_crc, fdt, ctlLog, consumed, out, crcs, n, n_crcs,
          oob, pc, abortReason, lastCall, callStart, lastRet, sawZero, err,
          doStartRet, wasCapturing, scenario, handlerRan, fcall, fret, other,
          timer, bytes_read>>

\* ------------------------------------------------------------- data
Kernels == {"generic", "legacy", "none"}

\* enum pipe values a client passes (PIPE_A = 0, PIPE_B = 1).
Pipes == {0, 1}

pipe_crc_sources ==
    <<"none", "plane1", "plane2", "pf", "pipe", "TV", "DP-B", "DP-C", "DP-D", "auto">>

pipe_crc_source_name(source) == pipe_crc_sources[source + 1]

\* enum intel_pipe_crc_source values a client passes: PIPE (4) and AUTO (9).
Sources == {4, 9}

kmstest_pipe_name(pipe) == <<"A", "B", "C">>[pipe + 1]

\* open(2) flags of the data channel: O_RDONLY is 0, so the set of other bits.
O_RDONLY == {}
O_NONBLOCK == {"O_NONBLOCK"}

\* igt_crc_t, abstracted: which delivered line populated it (0: none yet) and
\* whether that line matched the session's grammar.
EmptyCrc == [line |-> 0, decoded |-> FALSE]

\* calloc(1, sizeof(struct _igt_pipe_crc))
ZeroPipeCrc ==
    [fd |-> 0, dir |-> 0, ctl_fd |-> 0, crc_fd |-> 0, flags |-> {},
     is_legacy |-> FALSE, pipe |-> 0, source |-> 0]

\* ------------------------------------------------------------- descriptors
\* open(2)/openat(2) return the lowest descriptor that is not open.
LowestFree(t) ==
    CHOOSE k \in 0..Cardinality(DOMAIN t) :
        /\ k \notin DOMAIN t
        /\ \A j \in 0..Cardinality(DOMAIN t) : j \notin DOMAIN t => k <= j

openat(t, kind) == (LowestFree(t) :> kind) @@ t

\* close(2): closing a descriptor that is not open (such as -1) fails with
\* EBADF and changes nothing.
close(t, fd) == [k \in DOMAIN t \ {fd} |-> t[k]]

IsOpen(t, fd, kind) == fd \in DOMAIN t /\ t[fd] = kind

OpenOf(t, kind) == {k \in DOMAIN t : t[k] = kind}

\* ------------------------------------------------------------- kernel answers
\* errno of a failed openat of crtc-<pipe>/crc/data, or "ok".
OpenResults == {"ok", "EINVAL", "ENOENT"}

\* What read(2) on crc_fd can give.  A descriptor that is not open (-1 after
\* stop, or never opened) fails with EBADF at once.  An open data channel
\* gives a line that matches the session's grammar, a line that does not,
\* zero bytes, EAGAIN, another error, or nothing within the watchdog's time.
\* Faulty variant: a read on a descriptor that is not an open data file
\* behaves like a read on one.
read_any_descriptor(t, fd, used) ==
    {"eof", "EAGAIN", "EINTR", "timeout"}
    \cup (IF used < MaxLines THEN {"line_ok", "line_bad"} ELSE {})

read(t, fd, used) ==
    IF ~IsOpen(t, fd, "data") THEN {"EBADF"}
    ELSE {"eof", "EAGAIN", "EINTR", "timeout"}
         \cup (IF used < MaxLines THEN {"line_ok", "line_bad"} ELSE {})

\* What undefined behaviour (a scan or a store past the end of a buffer) does.
UB == {"silent", "crash"}

\* ------------------------------------------------------------- stop / start
\* Results of the operators below: the session, the descriptor table, the
\* control log and the assertion that failed ("none": none).
Result(s, t, log, abort) ==
    [s |-> s, t |-> t, log |-> log, abort |-> abort]

\* Faulty variant: stop does nothing at all.
igt_pipe_crc_stop_noop(s, t, log, wok) == Result(s, t, log, "none")

\* Faulty variant: the generic stop forgets the descriptor without closing it.
igt_pipe_crc_stop_no_close(s, t, log, wok) ==
    IF s.is_legacy
    THEN IF wok
         THEN Result(s, t, Append(log, <<"pipe", kmstest_pipe_name(s.pipe), "none">>),
                     "none")
         ELSE Result(s, t, log, "igt_pipe_crc_stop:write")
    ELSE Result([s EXCEPT !.crc_fd = -1], t, log, "none")

\* Faulty variant: stop writes "none" to the control file on the generic ABI too.
igt_pipe_crc_stop_always_writes(s, t, log, wok) ==
    IF s.is_legacy
    THEN IF wok
         THEN Result(s, t, Append(log, <<"pipe", kmstest_pipe_name(s.pipe), "none">>),
                     "none")
         ELSE Result(s, t, log, "igt_pipe_crc_stop:write")
    ELSE Result([s EXCEPT !.crc_fd = -1], close(t, s.crc_fd),
                Append(log, <<"none">>), "none")

\* Faulty variant: stop closes the data file under either ABI.
igt_pipe_crc_stop_closes_data(s, t, log, wok) ==
    IF s.is_legacy /\ ~wok
    THEN Result(s, t, log, "igt_pipe_crc_stop:write")
    ELSE Result([s EXCEPT !.crc_fd = -1], close(t, s.crc_fd),
                IF s.is_legacy
                THEN Append(log, <<"pipe", kmstest_pipe_name(s.pipe), "none">>)
                ELSE log,
                "none")

igt_pipe_crc_stop(s, t, log, wok) ==
    IF s.is_legacy
    THEN IF wok
         THEN Result(s, t, Append(log, <<"pipe", kmstest_pipe_name(s.pipe), "none">>),
                     "none")
         ELSE Result(s, t, log, "igt_pipe_crc_stop:write")
    ELSE Result([s EXCEPT !.crc_fd = -1], close(t, s.crc_fd), log, "none")

\* Faulty variant: when the open of the data file fails with EINVAL the
\* session falls back to the legacy ABI.
igt_pipe_crc_do_start_renegotiates(s, t, log, wok1, wok2, o) ==
    LET st == igt_pipe_crc_stop(s, t, log, wok1)
        buf == IF s.is_legacy
               THEN <<"pipe", kmstest_pipe_name(s.pipe), pipe_crc_source_name(s.source)>>
               ELSE <<pipe_crc_source_name(s.source)>>
        wr == Append(st.log, buf)
    IN  IF st.abort # "none" THEN st @@ [ret |-> FALSE, err |-> "none"]
        ELSE IF ~wok2
        THEN Result(st.s, st.t, st.log, "igt_pipe_crc_do_start:write")
             @@ [ret |-> FALSE, err |-> "none"]
        ELSE IF st.s.is_legacy
        THEN Result(st.s, st.t, wr, "none") @@ [ret |-> TRUE, err |-> "none"]
        ELSE IF o = "ok"
        THEN Result([st.s EXCEPT !.crc_fd = LowestFree(st.t)], openat(st.t, "data"),
                    wr, "none") @@ [ret |-> TRUE, err |-> "ok"]
        ELSE IF o = "EINVAL"
        THEN Result([st.s EXCEPT !.crc_fd = -1, !.is_legacy = TRUE], st.t, wr, "none")
             @@ [ret |-> FALSE, err |-> "EINVAL"]
        ELSE Result([st.s EXCEPT !.crc_fd = -1], st.t, wr,
                    "igt_pipe_crc_do_start:open") @@ [ret |-> FALSE, err |-> o]

\* Faulty variant: the start command names the pipe on the generic ABI too.
igt_pipe_crc_do_start_legacy_cmd(s, t, log, wok1, wok2, o) ==
    LET st == igt_pipe_crc_stop(s, t, log, wok1)
        buf == <<"pipe", kmstest_pipe_name(s.pipe), pipe_crc_source_name(s.source)>>
        wr == Append(st.log, buf)
    IN  IF st.abort # "none" THEN st @@ [ret |-> FALSE, err |-> "none"]
        ELSE IF ~wok2
        THEN Result(st.s, st.t, st.log, "igt_pipe_crc_do_start:write")
             @@ [ret |-> FALSE, err |-> "none"]
        ELSE IF st.s.is_legacy
        THEN Result(st.s, st.t, wr, "none") @@ [ret |-> TRUE, err |-> "none"]
        ELSE IF o = "ok"
        THEN Result([st.s EXCEPT !.crc_fd = LowestFree(st.t)], openat(st.t, "data"),
                    wr, "none") @@ [ret |-> TRUE, err |-> "ok"]
        ELSE IF o = "EINVAL"
        THEN Result([st.s EXCEPT !.crc_fd = -1], st.t, wr, "none")
             @@ [ret |-> FALSE, err |-> "EINVAL"]
        ELSE Result([st.s EXCEPT !.crc_fd = -1], st.t, wr,
                    "igt_pipe_crc_do_start:open") @@ [ret |-> FALSE, err |-> o]

\* Faulty variant: start does not stop the pipe before it writes the source.
igt_pipe_crc_do_start_no_stop(s, t, log, wok1, wok2, o) ==
    LET st == Result(s, t, log, "none")
        buf == IF s.is_legacy
               THEN <<"pipe", kmstest_pipe_name(s.pipe), pipe_crc_source_name(s.source)>>
               ELSE <<pipe_crc_source_name(s.source)>>
        wr == Append(st.log, buf)
    IN  IF ~wok2
        THEN Result(st.s, st.t, st.log, "igt_pipe_crc_do_start:write")
             @@ [ret |-> FALSE, err |-> "none"]
        ELSE IF st.s.is_legacy
        THEN Result(st.s, st.t, wr, "none") @@ [ret |-> TRUE, err |-> "none"]
        ELSE IF o = "ok"
        THEN Result([st.s EXCEPT !.crc_fd = LowestFree(st.t)], openat(st.t, "data"),
                    wr, "none") @@ [ret |-> TRUE, err |-> "ok"]
        ELSE IF o = "EINVAL"
        THEN Result([st.s EXCEPT !.crc_fd = -1], st.t, wr, "none")
             @@ [ret |-> FALSE, err |-> "EINVAL"]
        ELSE Result([st.s EXCEPT !.crc_fd = -1], st.t, wr,
                    "igt_pipe_crc_do_start:open") @@ [ret |-> FALSE, err |-> o]

\* igt_pipe_crc_do_start: the result carries ret, the function's return value.
igt_pipe_crc_do_start(s, t, log, wok1, wok2, o) ==
    LET st == igt_pipe_crc_stop(s, t, log, wok1)
        buf == IF s.is_legacy
               THEN <<"pipe", kmstest_pipe_name(s.pipe), pipe_crc_source_name(s.source)>>
               ELSE <<pipe_crc_source_name(s.source)>>
        wr == Append(st.log, buf)
    IN  IF st.abort # "none" THEN st @@ [ret |-> FALSE, err |-> "none"]
        ELSE IF ~wok2
        THEN Result(st.s, st.t, st.log, "igt_pipe_crc_do_start:write")
             @@ [ret |-> FALSE, err |-> "none"]
        ELSE IF st.s.is_legacy
        THEN Result(st.s, st.t, wr, "none") @@ [ret |-> TRUE, err |-> "none"]
        ELSE IF o = "ok"
        THEN Result([st.s EXCEPT !.crc_fd = LowestFree(st.t)], openat(st.t, "data"),
                    wr, "none") @@ [ret |-> TRUE, err |-> "ok"]
        ELSE IF o = "EINVAL"
        THEN Result([st.s EXCEPT !.crc_fd = -1], st.t, wr, "none")
             @@ [ret |-> FALSE, err |-> "EINVAL"]
        ELSE Result([st.s EXCEPT !.crc_fd = -1], st.t, wr,
                    "igt_pipe_crc_do_start:open") @@ [ret |-> FALSE, err |-> o]

\* Faulty variant: the public start passes the result on without asserting it.
igt_pipe_crc_start_unchecked(s, t, log, wok1, wok2, o) ==
    igt_pipe_crc_do_start(s, t, log, wok1, wok2, o)

\* igt_pipe_crc_start up to its warm-up reads: igt_assert(igt_pipe_crc_do_start()).
igt_pipe_crc_start(s, t, log, wok1, wok2, o) ==
    LET d == igt_pipe_crc_do_start(s, t, log, wok1, wok2, o)
    IN  IF d.abort = "none" /\ ~d.ret
        THEN [d EXCEPT !.abort = "igt_pipe_crc_start:do_start"]
        ELSE d

\* Faulty variant: free leaves the control file open.
igt_pipe_crc_free_leak_ctl(s, t) == close(close(t, s.crc_fd), s.dir)

\* Faulty variant: free leaves the debugfs directory open.
igt_pipe_crc_free_leak_dir(s, t) == close(close(t, s.ctl_fd), s.crc_fd)

igt_pipe_crc_free(s, t) ==
    close(close(close(t, s.ctl_fd), s.crc_fd), s.dir)

\* ------------------------------------------------------------- reading
\* pipe_crc_init_from_string on the line numbered seq.  The legacy decoder
\* reports whether sscanf matched all six fields and leaves what it scanned
\* in the record; the generic decoder returns true whatever the line holds.
pipe_crc_init_from_string(s, rd, seq) ==
    [ret |-> IF s.is_legacy THEN rd = "line_ok" ELSE TRUE,
     crc |-> [line |-> seq, decoded |-> rd = "line_ok"],
     overrun |-> ~s.is_legacy /\ rd = "line_bad"]

\* Faulty variant: read_crc asserts that the line decoded.
read_crc_asserting(s, rd, seq, ub) ==
    LET isLine == rd \in {"line_ok", "line_bad"}
        dec == pipe_crc_init_from_string(s, rd, seq)
        R(ret, abort, wrote) ==
            [ret |-> ret, abort |-> abort, wrote |-> wrote, crc |-> dec.crc]
    IN  IF rd = "timeout" THEN R("zero", "igt_set_timeout", FALSE)
        ELSE IF rd = "EAGAIN" /\ ~(O_NONBLOCK \subseteq s.flags)
        THEN R("zero", "read_crc:EAGAIN", FALSE)
        ELSE IF ~isLine THEN R("zero", "none", FALSE)
        ELSE IF dec.overrun /\ ub = "crash" THEN R("zero", "SIGSEGV", TRUE)
        ELSE IF ~dec.ret THEN R("einval", "read_crc:decode", TRUE)
        ELSE R("line", "none", TRUE)

\* Faulty variant: read_crc takes EAGAIN as no bytes on every session.
read_crc_any_eagain(s, rd, seq, ub) ==
    LET isLine == rd \in {"line_ok", "line_bad"}
        dec == pipe_crc_init_from_string(s, rd, seq)
        R(ret, abort, wrote) ==
            [ret |-> ret, abort |-> abort, wrote |-> wrote, crc |-> dec.crc]
    IN  IF rd = "timeout" THEN R("zero", "igt_set_timeout", FALSE)
        ELSE IF ~isLine THEN R("zero", "none", FALSE)
        ELSE IF dec.overrun /\ ub = "crash" THEN R("zero", "SIGSEGV", TRUE)
        ELSE IF ~dec.ret THEN R("einval", "none", TRUE)
        ELSE R("line", "none", TRUE)

\* read_crc: ret is "line" (bytes read, decoded), "einval" (-EINVAL) or
\* "zero"; wrote says whether the out record was stored to.
read_crc(s, rd, seq, ub) ==
    LET isLine == rd \in {"line_ok", "line_bad"}
        dec == pipe_crc_init_from_string(s, rd, seq)
        R(ret, abort, wrote) ==
            [ret |-> ret, abort |-> abort, wrote |-> wrote, crc |-> dec.crc]
    IN  IF rd = "timeout" THEN R("zero", "igt_set_timeout", FALSE)
        ELSE IF rd = "EAGAIN" /\ ~(O_NONBLOCK \subseteq s.flags)
        THEN R("zero", "read_crc:EAGAIN", FALSE)
        ELSE IF ~isLine THEN R("zero", "none", FALSE)
        ELSE IF dec.overrun /\ ub = "crash" THEN R("zero", "SIGSEGV", TRUE)
        ELSE IF ~dec.ret THEN R("einval", "none", TRUE)
        ELSE R("line", "none", TRUE)

\* Capturing: the kernel was told a source and not told to stop since (legacy),
\* the data file is open (generic).
Capturing(s, t, log) ==
    IF s.is_legacy
    THEN Len(log) > 0 /\ log[Len(log)][3] # "none"
    ELSE IsOpen(t, s.crc_fd, "data")

\* Faulty variant: igt_pipe_crc_start discards one line only.
read_one_crc_one_warmup(p, call, ret) ==
    IF ret = "zero" THEN p
    ELSE IF p \in {"warm1", "warm2"} /\ call = "collect" THEN "collect_read"
    ELSE "return"

\* Faulty variant: read_one_crc returns after one read_crc whatever it returned.
read_one_crc_no_retry(p, call, ret) ==
    IF p = "warm1" THEN "warm2"
    ELSE IF p = "warm2" /\ call = "collect" THEN "collect_read"
    ELSE "return"

\* Faulty variant: the public read never stops reading, whatever read_crc
\* returned.
read_one_crc_keeps_reading(p, call, ret) ==
    IF p = "warm1" THEN (IF ret = "zero" THEN p ELSE "warm2")
    ELSE IF p = "warm2" THEN
         (IF ret = "zero" THEN p
          ELSE IF call = "collect" THEN "collect_read" ELSE "return")
    ELSE p

\* Where read_one_crc called at p goes once read_crc returned ret: it sleeps
\* and reads again on 0; otherwise it returns, the first warm-up read of
\* igt_pipe_crc_start to the second, the second to the read of
\* igt_pipe_crc_collect_crc when that is the public call, and every other
\* one to the end of the public call ("return").
read_one_crc(p, call, ret) ==
    IF ret = "zero" THEN p
    ELSE IF p = "warm1" THEN "warm2"
    ELSE IF p = "warm2" /\ call = "collect" THEN "collect_read"
    ELSE "return"

\* ------------------------------------------------------------- construction
\* Faulty variant: the legacy data file is not opened in construction.
pipe_crc_new_lazy_data(t, k, fd, pipe, source, flags, dirOk, dataOk) ==
    LET debugfs == LowestFree(t)
        t1 == openat(t, "dir")
        ctl == LowestFree(t1)
        t2 == openat(t1, "ctl")
        legacy == k # "generic"
        s2 == [ZeroPipeCrc EXCEPT !.ctl_fd = ctl, !.is_legacy = legacy]
        t3 == t2
        s3 == [s2 EXCEPT !.crc_fd = -1,
                         !.fd = fd, !.dir = debugfs, !.pipe = pipe,
                         !.source = source, !.flags = flags]
    IN  IF ~dirOk THEN Result(ZeroPipeCrc, t, <<>>, "pipe_crc_new:debugfs")
        ELSE IF k = "none" THEN Result(ZeroPipeCrc, t1, <<>>, "pipe_crc_new:ctl_fd")
        ELSE IF legacy /\ ~dataOk THEN Result(s2, t2, <<>>, "pipe_crc_new:crc_fd")
        ELSE Result(s3, t3, <<>>, "none")

\* pipe_crc_new: dirOk says whether igt_debugfs_dir found the directory,
\* dataOk whether the legacy data file could be opened.
pipe_crc_new(t, k, fd, pipe, source, flags, dirOk, dataOk) ==
    LET debugfs == LowestFree(t)
        t1 == openat(t, "dir")
        ctl == LowestFree(t1)
        t2 == openat(t1, "ctl")
        legacy == k # "generic"
        s2 == [ZeroPipeCrc EXCEPT !.ctl_fd = ctl, !.is_legacy = legacy]
        t3 == IF legacy THEN openat(t2, "data") ELSE t2
        s3 == [s2 EXCEPT !.crc_fd = IF legacy THEN LowestFree(t2) ELSE -1,
                         !.fd = fd, !.dir = debugfs, !.pipe = pipe,
                         !.source = source, !.flags = flags]
    IN  IF ~dirOk THEN Result(ZeroPipeCrc, t, <<>>, "pipe_crc_new:debugfs")
        ELSE IF k = "none" THEN Result(ZeroPipeCrc, t1, <<>>, "pipe_crc_new:ctl_fd")
        ELSE IF legacy /\ ~dataOk THEN Result(s2, t2, <<>>, "pipe_crc_new:crc_fd")
        ELSE Result(s3, t3, <<>>, "none")

\* igt_pipe_crc_new (flags = O_RDONLY) and igt_pipe_crc_new_nonblock
\* (flags = O_RDONLY | O_NONBLOCK) on the device descriptor 3.
New ==
    /\ pc = "client" /\ obj = "null"
    /\ \E pipe \in Pipes, source \in Sources,
          flags \in {O_RDONLY, O_RDONLY \cup O_NONBLOCK},
          dirOk \in BOOLEAN,
          dataOk \in (IF kernel = "legacy" THEN BOOLEAN ELSE {TRUE}) :
         LET r == pipe_crc_new(fdt, kernel, 3, pipe, source, flags, dirOk, dataOk)
         IN  /\ pipe_crc' = r.s
             /\ fdt' = r.t
             /\ obj' = IF r.abort = "none" THEN "live" ELSE "null"
             /\ pc' = IF r.abort = "none" THEN "client" ELSE "aborted"
             /\ abortReason' = r.abort
             /\ scenario' = IF /\ r.abort = "none" /\ ~r.s.is_legacy
                               /\ kmstest_pipe_name(pipe) = "B"
                               /\ pipe_crc_source_name(source) = "auto"
                            THEN 1 ELSE -1
    /\ lastCall' = "new"
    /\ UNCHANGED <<timer, bytes_read, other, fcall, fret, kernel, handlerRan, ctlLog, consumed, out, crcs, n, n_crcs, oob, callStart,
                   lastRet, sawZero, err, doStartRet, wasCapturing>>

\* ------------------------------------------------------------- public calls
\* A client calls between operations, on a live session.
CanCall == pc = "client" /\ obj = "live" /\ Len(ctlLog) < MaxLog

\* The scenario goes on when the call is its next one, and is left otherwise.
Follow(k) == IF scenario = k THEN k + 1 ELSE -1

\* igt_pipe_crc_stop
Stop ==
    /\ CanCall
    /\ \E wok \in (IF pipe_crc.is_legacy THEN BOOLEAN ELSE {TRUE}) :
         LET r == igt_pipe_crc_stop(pipe_crc, fdt, ctlLog, wok)
         IN  /\ pipe_crc' = r.s
             /\ fdt' = r.t
             /\ ctlLog' = r.log
             /\ pc' = IF r.abort = "none" THEN "client" ELSE "aborted"
             /\ abortReason' = r.abort
    /\ lastCall' = "stop"
    /\ callStart' = consumed
    /\ wasCapturing' = Capturing(pipe_crc, fdt, ctlLog)
    /\ scenario' = Follow(3)
    /\ UNCHANGED <<timer, bytes_read, other, fcall, fret, kernel, handlerRan, obj, consumed, out, crcs, n, n_crcs, oob, lastRet,
                   sawZero, err, doStartRet>>

\* The part of igt_pipe_crc_start before its reads.  A legacy session goes
\* on to the two warm-up reads; a generic one is done (name = "start") or
\* goes on to the read of igt_pipe_crc_collect_crc (name = "collect").
Begin(name) ==
    /\ CanCall
    /\ \E wok1 \in (IF pipe_crc.is_legacy THEN BOOLEAN ELSE {TRUE}),
          wok2 \in BOOLEAN,
          o \in (IF pipe_crc.is_legacy THEN {"ok"} ELSE OpenResults) :
         LET r == igt_pipe_crc_start(pipe_crc, fdt, ctlLog, wok1, wok2, o)
         IN  /\ pipe_crc' = r.s
             /\ fdt' = r.t
             /\ ctlLog' = r.log
             /\ pc' = IF r.abort # "none" THEN "aborted"
                      ELSE IF r.s.is_legacy THEN "warm1"
                      ELSE IF name = "collect" THEN "collect_read"
                      ELSE "client"
             /\ abortReason' = r.abort
             /\ err' = r.err
             /\ doStartRet' = r.ret
    /\ lastCall' = name
    /\ callStart' = consumed
    /\ wasCapturing' = Capturing(pipe_crc, fdt, ctlLog)
    /\ out' = IF name = "collect" THEN EmptyCrc ELSE out
    /\ scenario' = IF name = "start" THEN Follow(1) ELSE -1
    /\ UNCHANGED <<timer, bytes_read, other, fcall, fret, kernel, handlerRan, obj, consumed, crcs, n, n_crcs, oob, lastRet, sawZero>>

\* igt_pipe_crc_start
Start == Begin("start")

\* igt_pipe_crc_collect_crc, up to the first read
Collect == Begin("collect")

\* read_one_crc called on its own (start, readOne, stop)
ReadOne ==
    /\ CanCall
    /\ pc' = "read_one"
    /\ lastCall' = "read_one"
    /\ callStart' = consumed
    /\ wasCapturing' = Capturing(pipe_crc, fdt, ctlLog)
    /\ out' = EmptyCrc
    /\ scenario' = Follow(2)
    /\ UNCHANGED <<timer, bytes_read, other, fcall, fret, kernel, handlerRan, obj, pipe_crc, fdt, ctlLog, consumed, crcs, n, n_crcs,
                   oob, abortReason, lastRet, sawZero, err, doStartRet>>

\* igt_pipe_crc_free.  A null pointer returns at once.  The function gets the
\* pointer by value and cannot clear the caller's copy, so a second call on
\* the same pointer reads the released record and releases it again, which
\* is undefined: either the stale descriptor numbers are closed once more
\* and the allocator lets the second release pass, or the process dies
\* (the allocator detects the double free, or the access faults).
Free ==
    /\ pc = "client"
    /\ \E ub \in (IF obj = "freed" THEN UB ELSE {"silent"}) :
         /\ fdt' = IF obj = "null" \/ ub = "crash" THEN fdt
                   ELSE igt_pipe_crc_free(pipe_crc, fdt)
         /\ pc' = IF ub = "crash" THEN "aborted" ELSE "client"
         /\ abortReason' = IF ub = "crash" THEN "double free" ELSE abortReason
    /\ obj' = IF obj = "null" THEN "null" ELSE "freed"
    /\ lastCall' = "free"
    /\ callStart' = consumed
    /\ wasCapturing' = Capturing(pipe_crc, fdt, ctlLog)
    /\ scenario' = Follow(4)
    /\ UNCHANGED <<timer, bytes_read, other, fcall, fret, kernel, handlerRan, pipe_crc, ctlLog, consumed, out, crcs, n, n_crcs, oob,
                   lastRet, sawZero, err, doStartRet>>

\* ------------------------------------------------------------- read loops
\* One turn of the loop of read_one_crc: while (read_crc() == 0) usleep(1000).
\* The warm-up reads of igt_pipe_crc_start store into a local record, the
\* other two into the caller's.  When the loop of igt_pipe_crc_collect_crc
\* ends, the rest of that function runs: igt_pipe_crc_stop, then
\* crc_sanity_checks, which only warns and changes nothing.
ReadOneStep ==
    /\ pc \in {"warm1", "warm2", "collect_read", "read_one"}
    /\ \E rd \in read(fdt, pipe_crc.crc_fd, consumed),
          ub \in (IF pipe_crc.is_legacy THEN {"silent"} ELSE UB),
          wok \in (IF pipe_crc.is_legacy /\ pc = "collect_read" THEN BOOLEAN ELSE {TRUE}) :
         LET r == read_crc(pipe_crc, rd, consumed + 1, ub)
             next == read_one_crc(pc, lastCall, r.ret)
             tail == r.abort = "none" /\ next = "return" /\ pc = "collect_read"
             st == igt_pipe_crc_stop(pipe_crc, fdt, ctlLog, wok)
         IN  /\ consumed' = IF r.wrote THEN consumed + 1 ELSE consumed
             /\ out' = IF r.wrote /\ pc \in {"collect_read", "read_one"}
                       THEN r.crc ELSE out
             /\ lastRet' = r.ret
             /\ pipe_crc' = IF tail THEN st.s ELSE pipe_crc
             /\ fdt' = IF tail THEN st.t ELSE fdt
             /\ ctlLog' = IF tail THEN st.log ELSE ctlLog
             /\ abortReason' = IF tail THEN st.abort ELSE r.abort
             /\ pc' = IF r.abort # "none" \/ (tail /\ st.abort # "none") THEN "aborted"
                      ELSE IF next = "return" THEN "client"
                      ELSE next
    /\ UNCHANGED <<timer, bytes_read, other, fcall, fret, kernel, handlerRan, obj, crcs, n, n_crcs, oob, lastCall, callStart, sawZero,
                   err, doStartRet, wasCapturing, scenario>>

\* igt_pipe_crc_get_crcs up to its loop: crcs = calloc(n_crcs, ...), n = 0.
GetCrcs ==
    /\ CanCall
    /\ \E N \in 0..MaxCrcs :
         /\ n_crcs' = N
         /\ crcs' = [i \in 1..N |-> EmptyCrc]
    /\ n' = 0
    /\ oob' = FALSE
    /\ sawZero' = FALSE
    /\ pc' = "get_crcs"
    /\ lastCall' = "get_crcs"
    /\ callStart' = consumed
    /\ wasCapturing' = Capturing(pipe_crc, fdt, ctlLog)
    /\ scenario' = -1
    /\ UNCHANGED <<timer, bytes_read, other, fcall, fret, kernel, handlerRan, obj, pipe_crc, fdt, ctlLog, consumed, out, abortReason,
                   lastRet, err, doStartRet>>

\* One turn of the do-while loop of igt_pipe_crc_get_crcs.  read_crc stores
\* into crcs[n] (crcs[n + 1] here); with n_crcs = 0 that is past the end of
\* the allocation.  A negative ret continues at the loop condition, zero
\* breaks, otherwise n++.  Leaving the loop returns n.
GetCrcsStep ==
    /\ pc = "get_crcs"
    /\ \E rd \in read(fdt, pipe_crc.crc_fd, consumed),
          ub \in (IF pipe_crc.is_legacy /\ n < n_crcs THEN {"silent"} ELSE UB) :
         LET r == read_crc(pipe_crc, rd, consumed + 1, ub)
             inside == n < n_crcs
             smashed == r.wrote /\ ~inside
             abort == IF r.abort # "none" THEN r.abort
                      ELSE IF smashed /\ ub = "crash" THEN "SIGSEGV"
                      ELSE "none"
             n1 == IF r.ret = "line" THEN n + 1 ELSE n
         IN  /\ consumed' = IF r.wrote THEN consumed + 1 ELSE consumed
             /\ crcs' = IF r.wrote /\ inside THEN [crcs EXCEPT ![n + 1] = r.crc]
                        ELSE crcs
             /\ oob' = (oob \/ smashed)
             /\ lastRet' = r.ret
             /\ sawZero' = (sawZero \/ (abort = "none" /\ r.ret = "zero"))
             /\ abortReason' = abort
             /\ n' = IF abort = "none" THEN n1 ELSE n
             /\ pc' = IF abort # "none" THEN "aborted"
                      ELSE IF r.ret # "zero" /\ n1 < n_crcs THEN "get_crcs"
                      ELSE "client"
    /\ UNCHANGED <<timer, bytes_read, other, fcall, fret, kernel, handlerRan, obj, pipe_crc, fdt, ctlLog, out, n_crcs, lastCall,
                   callStart, err, doStartRet, wasCapturing, scenario>>

\* ------------------------------------------------------------- exit handler
\* Names are kept in the pieces the code formats or compares them by: a path
\* under the debugfs directory of the device is the tuple of the pieces of
\* its format string, an entry of /dev/dri is split after its fourth
\* character.
\* The files the debugfs directory of the device holds, by ABI.
DebugfsFiles(k) ==
    IF k = "generic"
    THEN {<<"crtc-", p, "/crc/control">> : p \in Pipes}
         \cup {<<"crtc-", p, "/crc/data">> : p \in Pipes}
    ELSE IF k = "legacy"
    THEN {<<"i915_display_crc_ctl">>}
         \cup {<<"i915_pipe_", kmstest_pipe_name(p), "_crc">> : p \in Pipes}
    ELSE {}

\* What readdir gives on that directory.
DebugfsEntries(k) ==
    IF k = "generic" THEN {<<"crtc-", p>> : p \in Pipes} ELSE DebugfsFiles(k)

\* What readdir gives on /dev/dri.
DevDri == {<<"card", "0">>, <<"rend", "erD128">>}

\* strcmp compares the whole names, strncmp(name, "card", 4) the first four
\* characters only.
strcmp(a, b) == IF a = b THEN 0 ELSE 1

strncmp4(name, prefix) == IF name[1] = prefix THEN 0 ELSE 1

\* igt_pipe_crc_pipe_off: write "pipe <P> none".  (The write is asserted; the
\* process is ending already when this runs.)
igt_pipe_crc_pipe_off(log, pipe) ==
    Append(log, <<"pipe", kmstest_pipe_name(pipe), "none">>)

\* igt_pipe_crc_reset on a device whose debugfs is of ABI k; log is what was
\* written to the control file of the session so far (the control file of
\* crtc-<pipe> on the generic ABI, i915_display_crc_ctl on the legacy one).
\* dirOk says whether igt_debugfs_dir gave a directory.
igt_pipe_crc_reset(k, s, log, dirOk) ==
    LET crtcs == {d \in DebugfsEntries(k) : strcmp(d, <<"crtc-">>) = 0}
        opened == {d \in crtcs : d \o <<"/crc/control">> \in DebugfsFiles(k)}
        done == opened # {}
        legacyCtl == <<"i915_display_crtc_ctl">>
    IN  IF ~dirOk THEN log
        ELSE IF done
        THEN IF <<"crtc-", s.pipe>> \in opened THEN Append(log, <<"none">>) ELSE log
        ELSE IF legacyCtl \in DebugfsFiles(k)
        THEN igt_pipe_crc_pipe_off(igt_pipe_crc_pipe_off(igt_pipe_crc_pipe_off(
                 log, 0), 1), 2)
        ELSE log

\* pipe_crc_exit_handler: igt_pipe_crc_reset on every card* of /dev/dri; the
\* only card is the device of the session.
pipe_crc_exit_handler(k, s, log, dirOk) ==
    IF \E d \in DevDri : strncmp4(d, "card") = 0
    THEN igt_pipe_crc_reset(k, s, log, dirOk)
    ELSE log

\* igt_install_exit_handler is called in pipe_crc_new once igt_debugfs_dir
\* has given a directory.
Installed ==
    obj # "null" \/ abortReason \in {"pipe_crc_new:ctl_fd", "pipe_crc_new:crc_fd"}

\* The process ends on a failed assertion, the watchdog or a fault, and the
\* exit handlers run.
ExitHandler ==
    /\ pc = "aborted" /\ Installed /\ ~handlerRan
    /\ \E dirOk \in BOOLEAN :
         ctlLog' = pipe_crc_exit_handler(kernel, pipe_crc, ctlLog, dirOk)
    /\ handlerRan' = TRUE
    /\ UNCHANGED <<timer, bytes_read, other, fcall, fret, kernel, obj, pipe_crc, fdt, consumed, out, crcs, n,
                   n_crcs, oob, pc, abortReason, lastCall, callStart, lastRet, sawZero, err,
                   doStartRet, wasCapturing, scenario>>

\* ------------------------------------------------------------- igt_require_pipe_crc
\* igt_debugfs_open: igt_debugfs_dir, openat in that directory, close of the
\* directory; fd is the descriptor returned (-1: none), t the table after.
igt_debugfs_open(t, k, filename, dirOk) ==
    LET dir == LowestFree(t)
        t1 == openat(t, "dir")
    IN  IF ~dirOk THEN [fd |-> -1, t |-> t]
        ELSE IF filename \in DebugfsFiles(k)
        THEN [fd |-> LowestFree(t1), t |-> close(openat(t1, "ctl"), dir)]
        ELSE [fd |-> -1, t |-> t]

\* igt_require_f(expr, ...): the test goes on when expr holds and is skipped
\* when it does not.
igt_require_f(expr) == expr

\* igt_require_pipe_crc: wok says whether the kernel accepts "pipe A none" on
\* the legacy control file.  An int is true in C when it is not 0; write on
\* the descriptor -1 returns -1.  A skip leaves the function at once, before
\* its close.
igt_require_pipe_crc(t, k, log, dirOk, wok) ==
    LET cmd == <<"pipe", "A", "none">>
        g == igt_debugfs_open(t, k, <<"crtc-", 0, "/crc/control">>, dirOk)
        l == igt_debugfs_open(t, k, <<"i915_display_crc_ctl">>, dirOk)
        written == IF l.fd # -1 /\ wok THEN 11 ELSE -1
        wr == IF written > 0 THEN Append(log, cmd) ELSE log
    IN  IF ~(g.fd < 0) THEN [skip |-> FALSE, t |-> close(g.t, g.fd), log |-> log]
        ELSE IF ~igt_require_f(l.fd # 0) THEN [skip |-> TRUE, t |-> l.t, log |-> log]
        ELSE IF ~igt_require_f(written < 0) THEN [skip |-> TRUE, t |-> l.t, log |-> wr]
        ELSE [skip |-> FALSE, t |-> close(l.t, l.fd), log |-> wr]

\* igt_require_pipe_crc on the device, in the fixture of a test, before any
\* session is made.
RequirePipeCrc ==
    /\ pc = "client" /\ obj = "null" /\ lastCall = "none"
    /\ \E dirOk \in BOOLEAN,
          wok \in (IF kernel = "legacy" THEN BOOLEAN ELSE {FALSE}) :
         LET r == igt_require_pipe_crc(fdt, kernel, ctlLog, dirOk, wok)
         IN  /\ fdt' = r.t
             /\ ctlLog' = r.log
             /\ pc' = IF r.skip THEN "skipped" ELSE "client"
    /\ lastCall' = "require"
    /\ UNCHANGED <<timer, bytes_read, other, fcall, fret, kernel, handlerRan, obj, pipe_crc, consumed, out, crcs, n, n_crcs,
                   oob, abortReason, callStart, lastRet, sawZero, err, doStartRet,
                   wasCapturing, scenario>>

\* ------------------------------------------------------------- specification
Init ==
    /\ kernel \in Kernels
    /\ obj = "null"
    /\ pipe_crc = ZeroPipeCrc
    /\ fdt = (0 :> "stdio") @@ (1 :> "stdio") @@ (2 :> "stdio") @@ (3 :> "drm")
    /\ ctlLog = <<>>
    /\ consumed = 0
    /\ out = EmptyCrc
    /\ crcs = <<>>
    /\ n = 0
    /\ n_crcs = 0
    /\ oob = FALSE
    /\ pc = "client"
    /\ abortReason = "none"
    /\ lastCall = "none"
    /\ callStart = 0
    /\ lastRet = "none"
    /\ sawZero = FALSE
    /\ err = "none"
    /\ doStartRet = TRUE
    /\ wasCapturing = FALSE
    /\ scenario = 0
    /\ handlerRan = FALSE
    /\ other = <<>>
    /\ timer = "off"
    /\ bytes_read = "none"
    /\ fcall = [fn |-> "none"]
    /\ fret = <<>>

Next ==
    \/ New
    \/ Start
    \/ Stop
    \/ Collect
    \/ ReadOne
    \/ GetCrcs
    \/ Free
    \/ ReadOneStep
    \/ GetCrcsStep
    \/ ExitHandler
    \/ RequirePipeCrc

Spec == Init /\ [][Next]_vars

\* ------------------------------------------------------------- igt_debugfs_dir
\* Indexes i for which a directory dri/<i> may exist besides the device's own.
NDirs == 3

\* Contents of a file dri/<i>/name, as bytes.
Names == {<<1>>, <<1, 2>>, <<2>>}

\* Minor numbers of the device node behind the descriptor.
Minors == {0, 63, 64}

\* Where the debugfs is: /debug/dri exists; /sys/kernel/debug/dri exists;
\* /sys/kernel/debug is a mount point without dri; it is not one and mount(2)
\* succeeds; it is not one and mount(2) fails; it does not exist.
DebugfsStates ==
    {"at_debug", "at_sys", "no_dri", "mountable", "unmountable", "no_sys_dir"}

\* What igt_debugfs_dir sees: whether fstat works on the descriptor, whether
\* it is a character device, its minor, the debugfs, and the name files under
\* dri/ (dri[i] for the directories that exist).
Systems ==
    {[fstatOk |-> f, ischr |-> c, debugfs |-> d, minor |-> m, dri |-> names] :
        f \in BOOLEAN, c \in BOOLEAN, d \in DebugfsStates, m \in Minors,
        names \in UNION {[S -> Names] : S \in SUBSET (0..(NDirs - 1))}}
    \cup
    {[fstatOk |-> TRUE, ischr |-> TRUE, debugfs |-> d, minor |-> m,
      dri |-> (m :> own) @@ names] :
        d \in DebugfsStates, m \in {k \in Minors : k >= NDirs}, own \in Names,
        names \in UNION {[S -> Names] : S \in SUBSET (0..(NDirs - 1))}}

\* igt_debugfs_mount: the mount point, or "abort" when is_mountpoint fails its
\* assertion on stat or the assertion on mount fails.
igt_debugfs_mount(sys) ==
    IF sys.debugfs = "at_debug" THEN "/debug"
    ELSE IF sys.debugfs = "at_sys" THEN "/sys/kernel/debug"
    ELSE IF sys.debugfs = "no_sys_dir" THEN "abort"
    ELSE IF sys.debugfs \in {"no_dri", "mountable"} THEN "/sys/kernel/debug"
    ELSE "abort"

\* stat / open of <root>/dri/<idx>/name succeeds
HasName(sys, idx) ==
    sys.debugfs \in {"at_debug", "at_sys", "mountable"} /\ idx \in DOMAIN sys.dri

\* read(file, buf, sizeof(buf)) with a buffer of 100 bytes: the bytes read
read_name(sys, idx) ==
    LET bytes == sys.dri[idx]
    IN  SubSeq(bytes, 1, IF Len(bytes) < 100 THEN Len(bytes) ELSE 100)

memcmp(a, b, len) == IF SubSeq(a, 1, len) = SubSeq(b, 1, len) THEN 0 ELSE 1

\* The loop for (idx = 0; idx < 16; idx++) from idx on: the idx it breaks at,
\* 16 when it runs to its end, -1 when it returns -1 from inside.
RECURSIVE name_search(_, _, _)
name_search(sys, name, idx) ==
    IF idx = 16 THEN 16
    ELSE IF ~HasName(sys, idx) THEN -1
    ELSE LET cmp == read_name(sys, idx)
         IN  IF Len(cmp) = Len(name) /\ memcmp(cmp, name, Len(name)) = 0
             THEN idx
             ELSE name_search(sys, name, idx + 1)

\* igt_debugfs_dir with descriptor table t: abort says an assertion failed,
\* fd is the return value, idx the dri/<idx> that was opened.
igt_debugfs_dir(t, sys) ==
    LET root == igt_debugfs_mount(sys)
        Ret(a, fd, idx) == [abort |-> a, fd |-> fd, idx |-> idx]
        found == name_search(sys, read_name(sys, sys.minor), 0)
    IN  IF ~sys.fstatOk \/ ~sys.ischr THEN Ret(FALSE, -1, -1)
        ELSE IF root = "abort" THEN Ret(TRUE, -1, -1)
        ELSE IF ~HasName(sys, sys.minor) THEN Ret(FALSE, -1, -1)
        ELSE IF sys.minor >= 64
        THEN IF found \in {-1, 16} THEN Ret(FALSE, -1, -1)
             ELSE Ret(FALSE, LowestFree(t), found)
        ELSE Ret(FALSE, LowestFree(t), sys.minor)

DebugfsDir ==
    /\ fcall.fn = "igt_debugfs_dir" /\ fret = <<>>
    /\ LET r == igt_debugfs_dir(fdt, fcall.sys)
       IN  /\ fret' = <<r>>
           /\ fdt' = IF r.fd # -1 THEN openat(fdt, "dir") ELSE fdt
           /\ pc' = IF r.abort THEN "aborted" ELSE pc
           /\ abortReason' = IF r.abort THEN "igt_debugfs_mount" ELSE abortReason
    /\ UNCHANGED <<timer, bytes_read, other, fcall, kernel, handlerRan, obj, pipe_crc, ctlLog, consumed, out,
                   crcs, n, n_crcs, oob, lastCall, callStart, lastRet, sawZero, err,
                   doStartRet, wasCapturing, scenario>>

\* ------------------------------------------------------------- igt_assert_crc_equal
\* Slots of the crc array of an igt_crc_t (DRM_MAX_CRC_NR in the source).
MaxWords == 2

\* Values of a CRC word.
Words == {0, 1}

\* igt_crc_t with its words: n_words of the slots are in use, the others hold
\* whatever was stored there before.
igt_crc_t ==
    [n_words : 0..MaxWords, crc : [0..(MaxWords - 1) -> Words]]

\* Faulty variant: the two records are compared as a whole.
igt_assert_crc_equal_whole_record(a, b) == a = b

\* Faulty variant: each word of a is compared with the following word of b.
igt_assert_crc_equal_shifted(a, b) ==
    \A i \in 0..(a.n_words - 1) : a.crc[i] = b.crc[(i + 1) % a.n_words]

\* igt_assert_crc_equal: TRUE when every igt_assert_eq_u32 of the loop passes.
igt_assert_crc_equal(a, b) ==
    \A i \in 0..(a.n_words - 1) : a.crc[i] = b.crc[i]

AssertCrcEqual ==
    /\ fcall.fn = "igt_assert_crc_equal" /\ fret = <<>>
    /\ LET ok == igt_assert_crc_equal(fcall.a, fcall.b)
       IN  /\ fret' = <<ok>>
           /\ pc' = IF ok THEN pc ELSE "aborted"
           /\ abortReason' = IF ok THEN abortReason ELSE "igt_assert_crc_equal"
    /\ UNCHANGED <<timer, bytes_read, other, fcall, kernel, handlerRan, obj, pipe_crc, fdt, ctlLog, consumed,
                   out, crcs, n, n_crcs, oob, lastCall, callStart, lastRet, sawZero,
                   err, doStartRet, wasCapturing, scenario>>

\* ------------------------------------------------------------- lines and numbers
\* A line is the sequence of the characters read(2) stored, each a string of
\* one character; the byte after them is the terminator read_crc stores.
NUL == "NUL"

At(s, p) == IF p \in 1..Len(s) THEN s[p] ELSE NUL

\* isspace
Space == {" ", "\n"}

DecDigits == <<"0", "1", "2", "3", "4", "5", "6", "7", "8", "9">>

HexDigits == DecDigits \o <<"a", "b", "c", "d", "e", "f">>

HexUpper == <<"A", "B", "C", "D", "E", "F">>

IsDec(c) == \E i \in 1..10 : DecDigits[i] = c

IsHex(c) == (\E i \in 1..16 : HexDigits[i] = c) \/ (\E i \in 1..6 : HexUpper[i] = c)

\* value of a hexadecimal digit
HexVal(c) ==
    IF \E i \in 1..16 : HexDigits[i] = c
    THEN (CHOOSE i \in 1..16 : HexDigits[i] = c) - 1
    ELSE (CHOOSE i \in 1..6 : HexUpper[i] = c) + 9

\* A uint32_t is kept as its eight hexadecimal digits, most significant
\* first, each a number in 0..15.
Zero32 == [i \in 1..8 |-> 0]

Ones32 == [i \in 1..8 |-> 15]

\* The uint32_t a run of hexadecimal digits converts to through an unsigned
\* long of 64 bits: more than 16 significant digits give ULONG_MAX, and the
\* store keeps the low 32 bits.
U32OfHex(digits) ==
    LET v == [i \in 1..Len(digits) |-> HexVal(digits[i])]
        lead == IF \A i \in 1..Len(v) : v[i] = 0 THEN Len(v)
                ELSE (CHOOSE i \in 1..Len(v) :
                         v[i] # 0 /\ \A j \in 1..(i - 1) : v[j] = 0) - 1
    IN  IF Len(v) - lead > 16 THEN Ones32
        ELSE [i \in 1..8 |-> IF Len(v) - 8 + i >= 1 THEN v[Len(v) - 8 + i] ELSE 0]

RECURSIVE DecValue(_)
DecValue(digits) ==
    IF digits = <<>> THEN 0
    ELSE 10 * DecValue(SubSeq(digits, 1, Len(digits) - 1))
         + HexVal(digits[Len(digits)])

RECURSIVE Pow16(_)
Pow16(k) == IF k = 0 THEN 1 ELSE 16 * Pow16(k - 1)

\* The uint32_t a run of at most eight decimal digits converts to.
U32OfDec(digits) ==
    LET v == DecValue(digits)
    IN  [i \in 1..8 |-> (v \div Pow16(8 - i)) % 16]

\* Index of the first character from p on that is not white space.
RECURSIVE SkipSpace(_, _)
SkipSpace(s, p) == IF At(s, p) \in Space THEN SkipSpace(s, p + 1) ELSE p

\* Number of hexadecimal (hex = TRUE) or decimal digits from p on, at most width.
RECURSIVE Run(_, _, _, _)
Run(s, p, hex, width) ==
    IF width = 0 THEN 0
    ELSE IF (IF hex THEN IsHex(At(s, p)) ELSE IsDec(At(s, p)))
    THEN 1 + Run(s, p + 1, hex, width - 1)
    ELSE 0

\* One conversion of sscanf (%<width>u for hex = FALSE, %<width>x for
\* hex = TRUE) or strtoul(s + p, NULL, 16) (hex = TRUE, width = the whole
\* rest): white space is skipped, a 0x or 0X before a hexadecimal digit is
\* taken as a prefix and counts in the width, then the digits are taken.  ok
\* says whether a digit was found, val is the value, next the index after
\* the last character taken.  (Signs are not among the characters of the
\* lines considered.)
Convert(s, p, hex, width) ==
    LET q == SkipSpace(s, p)
        prefix == /\ hex /\ width > 2 /\ At(s, q) = "0" /\ At(s, q + 1) \in {"x", "X"}
                  /\ IsHex(At(s, q + 2))
        d == IF prefix THEN q + 2 ELSE q
        w == IF prefix THEN width - 2 ELSE width
        k == Run(s, d, hex, w)
        digits == SubSeq(s, d, d + k - 1)
    IN  [ok |-> k > 0,
         val |-> IF k = 0 THEN Zero32
                 ELSE IF hex THEN U32OfHex(digits) ELSE U32OfDec(digits),
         next |-> d + k]

strtoul(s, p) == Convert(s, p, TRUE, Len(s) + 1).val

\* ------------------------------------------------------------- decoding a line
\* igt_crc_t as the decoders fill it: crc has the DRM_MAX_CRC_NR slots 0..9.
ZeroCrc ==
    [frame |-> Zero32, has_valid_frame |-> FALSE, n_words |-> 0,
     crc |-> [i \in 0..9 |-> Zero32]]

\* Faulty variant: the first directive reads a hexadecimal number too.
RECURSIVE sscanf_all_hex(_, _, _)
sscanf_all_hex(line, p, k) ==
    IF k > 6 THEN <<>>
    ELSE LET c == Convert(line, p, TRUE, 8)
         IN  IF c.ok THEN <<c.val>> \o sscanf_all_hex(line, c.next, k + 1) ELSE <<>>

\* The values sscanf stores for the directives k..6 of
\* "%8u %8x %8x %8x %8x %8x" from index p on: it stops at the first
\* directive that finds no digit.  (The blanks of the format skip white
\* space, as the conversions do themselves.)
RECURSIVE sscanf(_, _, _)
sscanf(line, p, k) ==
    IF k > 6 THEN <<>>
    ELSE LET c == Convert(line, p, k > 1, 8)
         IN  IF c.ok THEN <<c.val>> \o sscanf(line, c.next, k + 1) ELSE <<>>

\* The legacy branch of pipe_crc_init_from_string; a field sscanf did not
\* reach keeps what crc held before.
init_from_string_legacy(crc, line) ==
    LET v == sscanf(line, 1, 1)
    IN  [ret |-> Len(v) = 6,
         crc |-> [frame |-> IF Len(v) >= 1 THEN v[1] ELSE crc.frame,
                  has_valid_frame |-> TRUE,
                  n_words |-> 5,
                  crc |-> [i \in 0..9 |->
                              IF i + 2 <= Len(v) THEN v[i + 2] ELSE crc.crc[i]]],
         overrun |-> FALSE,
         store_oob |-> FALSE]

\* Faulty variant: buf advances by nine characters.
RECURSIVE generic_words_by_nine(_, _, _, _)
generic_words_by_nine(words, line, p, i) ==
    IF p > Len(line) + 1
    THEN [words |-> words, n_words |-> i, overrun |-> TRUE, store_oob |-> FALSE]
    ELSE IF At(line, p) = "\n"
    THEN [words |-> words, n_words |-> i, overrun |-> FALSE, store_oob |-> FALSE]
    ELSE IF i > 9
    THEN [words |-> words, n_words |-> i, overrun |-> FALSE, store_oob |-> TRUE]
    ELSE generic_words_by_nine([words EXCEPT ![i] = strtoul(line, p)], line, p + 9, i + 1)

\* The loop of the generic branch from index p (buf) and word i on.  overrun:
\* buf went past the terminator before a newline was met; store_oob: the
\* word to store has no slot in crc[].
RECURSIVE generic_words(_, _, _, _)
generic_words(words, line, p, i) ==
    IF p > Len(line) + 1
    THEN [words |-> words, n_words |-> i, overrun |-> TRUE, store_oob |-> FALSE]
    ELSE IF At(line, p) = "\n"
    THEN [words |-> words, n_words |-> i, overrun |-> FALSE, store_oob |-> FALSE]
    ELSE IF i > 9
    THEN [words |-> words, n_words |-> i, overrun |-> FALSE, store_oob |-> TRUE]
    ELSE generic_words([words EXCEPT ![i] = strtoul(line, p)], line, p + 11, i + 1)

\* Faulty variant: the result of the comparison is taken the wrong way round.
is_sentinel_inverted(line) == \E i \in 1..10 : At(line, i) # "X"

\* strncmp(line, "XXXXXXXXXX", 10) == 0
is_sentinel(line) == \A i \in 1..10 : At(line, i) = "X"

\* The generic branch of pipe_crc_init_from_string.
init_from_string_generic(crc, line) ==
    LET w == generic_words(crc.crc, line, 11, 0)
    IN  [ret |-> TRUE,
         crc |-> [frame |-> IF is_sentinel(line) THEN crc.frame ELSE strtoul(line, 1),
                  has_valid_frame |-> ~is_sentinel(line),
                  n_words |-> w.n_words,
                  crc |-> w.words],
         overrun |-> w.overrun,
         store_oob |-> w.store_oob]

\* pipe_crc_init_from_string on the characters of the line.
init_from_string(is_legacy, crc, line) ==
    IF is_legacy THEN init_from_string_legacy(crc, line)
    ELSE init_from_string_generic(crc, line)

\* Faulty variant: the most significant digit of each word is not printed.
RECURSIVE igt_crc_to_string_seven(_, _)
igt_crc_to_string_seven(crc, i) ==
    IF i >= crc.n_words THEN <<>>
    ELSE [j \in 1..7 |-> HexDigits[crc.crc[i][j + 1] + 1]] \o <<" ">>
         \o igt_crc_to_string_seven(crc, i + 1)

\* igt_crc_to_string: "%08x " for each word in use.
RECURSIVE igt_crc_to_string_from(_, _)
igt_crc_to_string_from(crc, i) ==
    IF i >= crc.n_words THEN <<>>
    ELSE [j \in 1..8 |-> HexDigits[crc.crc[i][j] + 1]] \o <<" ">>
         \o igt_crc_to_string_from(crc, i + 1)

igt_crc_to_string(crc) == igt_crc_to_string_from(crc, 0)

\* ------------------------------------------------------------- the lines decoded
\* digits padded with zeros on the left to width characters
Pad(digits, width) == [i \in 1..(width - Len(digits)) |-> "0"] \o digits

RECURSIVE Concat(_)
Concat(ss) == IF ss = <<>> THEN <<>> ELSE Head(ss) \o Concat(Tail(ss))

\* Sequences over S of length at most k.
RECURSIVE SeqUpTo(_, _)
SeqUpTo(S, k) ==
    IF k = 0 THEN {<<>>}
    ELSE LET shorter == SeqUpTo(S, k - 1)
         IN  shorter \cup {Append(q, x) : q \in {r \in shorter : Len(r) = k - 1}, x \in S}

\* Legacy lines of six fields of eight digits, blanks between them and a
\* newline at the end: LEGACY_LINE_LEN characters.  The first field is
\* decimal in the lines of the i915 control file ("%8u"); one of the first
\* fields here has a hexadecimal letter.
LegacyFrames ==
    {Pad(<<"1">>, 8), Pad(<<"1", "0">>, 8), Pad(<<"a">>, 8),
     <<"1", "2", "3", "4", "5", "6", "7", "8">>}

LegacyWords == {Pad(<<>>, 8), Pad(<<"a", "b", "c", "d">>, 8), Pad(<<"1", "F">>, 8)}

LegacyWellFormed ==
    {[fields |-> <<f>> \o w,
      line |-> f \o Concat([i \in 1..5 |-> <<" ">> \o w[i]]) \o <<"\n">>] :
        f \in LegacyFrames,
        w \in {<<a, b, b, b, b>> : a \in LegacyWords, b \in LegacyWords}
              \cup {<<b, b, b, b, a>> : a \in LegacyWords, b \in LegacyWords}}

\* Lines of at most LEGACY_LINE_LEN characters that are not six fields of
\* eight digits: fewer fields, short fields, seven fields, a first field of
\* nine digits, no digit at all, nothing.
LegacyMalformed ==
    {[fields |-> <<>>, line |-> l] : l \in
        {<<"1", " ", "2", " ", "3", " ", "4", " ", "5", " ", "6", "\n">>,
         <<"1", " ", "2", " ", "3", " ", "4", " ", "5", " ", "6", " ", "7", "\n">>,
         <<"1", " ", "2", " ", "3", " ", "4", " ", "5", "\n">>,
         <<"1", "2", "3", "4", "5", "6", "7", "8", "9">>
            \o Concat([i \in 1..5 |-> <<" ">> \o Pad(<<"1", "F">>, 8)]),
         Pad(<<"1">>, 8) \o Concat([i \in 1..4 |-> <<" ">> \o Pad(<<"1", "F">>, 8)])
            \o <<"\n">>,
         Pad(<<"1">>, 8) \o <<" ">> \o <<"z", "z", "z", "z", "z", "z", "z", "z">>
            \o Concat([i \in 1..4 |-> <<" ">> \o Pad(<<"1", "F">>, 8)]) \o <<"\n">>,
         <<"p", "i", "p", "e", "\n">>,
         <<"\n">>}}

\* Lines as the i915 data file prints them, "%8u %8x %8x %8x %8x %8x\n":
\* each number padded with blanks on the left to eight characters.
LegacyPrinted ==
    {[fields |-> <<f, a, b, b, b, a>>,
      line |-> [i \in 1..(8 - Len(f)) |-> " "] \o f
               \o Concat([i \in 1..5 |->
                             LET w == <<a, b, b, b, a>>[i]
                             IN  <<" ">> \o [j \in 1..(8 - Len(w)) |-> " "] \o w])
               \o <<"\n">>] :
        f \in {<<"7">>, <<"1", "0", "0">>, <<"1", "2", "3", "4", "5", "6", "7", "8">>},
        a \in {<<"0">>, <<"a", "b", "c", "d">>},
        b \in {<<"0">>, <<"f", "f", "f", "f", "f", "f", "f", "f">>}}

LegacyLines == LegacyWellFormed \cup LegacyPrinted \cup LegacyMalformed

\* Fields of a generic line decoded at most (the check of the loop's end
\* uses one line of ten fields besides).
MaxFields == 2

\* The first ten characters of a generic line: the frame number as the
\* kernel prints it ("0x%08x"), as ten hexadecimal digits, or the sentinel.
GenericFrames ==
    {<<"0", "x">> \o Pad(<<"5">>, 8), Pad(<<"1", "c">>, 10),
     [i \in 1..10 |-> "X"]}

GenericWords ==
    {<<"d", "e", "a", "d", "b", "e", "e", "f">>,
     <<"C", "A", "F", "E", "b", "a", "b", "e">>}

\* A field of a generic line with the eight digits d: as the kernel prints
\* it (" 0x%08x", 11 characters), as "0x%08x " (11 characters), as the
\* digits and three blanks (11 characters), or as "%08x " (9 characters).
Layouts == {"kernel", "trailing", "blanks", "nine"}

Field(layout, d) ==
    CASE layout = "kernel" -> <<" ", "0", "x">> \o d
      [] layout = "trailing" -> <<"0", "x">> \o d \o <<" ">>
      [] layout = "blanks" -> d \o <<" ", " ", " ">>
      [] layout = "nine" -> d \o <<" ">>

GenericLine(frame, layout, fields, nl) ==
    [frame |-> frame, layout |-> layout, fields |-> fields, nl |-> nl,
     line |-> frame \o Concat([i \in 1..Len(fields) |-> Field(layout, fields[i])])
              \o (IF nl THEN <<"\n">> ELSE <<>>)]

\* The generic lines decoded: up to MaxFields fields in each layout, with
\* the newline or cut before it; ten fields (a line of MAX_LINE_LEN
\* characters), with the newline or with a blank in its place; and
\* "00000005 deadbeef cafebabe " with its newline.
GenericLines ==
    {GenericLine(f, l, w, nl) :
        f \in GenericFrames, l \in Layouts,
        w \in SeqUpTo(GenericWords, MaxFields), nl \in BOOLEAN}
    \cup {GenericLine(f, "kernel", [i \in 1..10 |-> w], TRUE) :
             f \in GenericFrames, w \in GenericWords}
    \cup {[frame |-> <<>>, layout |-> "full", fields |-> <<>>, nl |-> FALSE,
           line |-> GenericLine(<<"0", "x">> \o Pad(<<"5">>, 8), "kernel",
                                [i \in 1..10 |-> w], FALSE).line \o <<" ">>] :
             w \in GenericWords}
    \cup {[frame |-> Pad(<<"5">>, 8) \o <<" ">>, layout |-> "nine",
           fields |-> <<<<"d", "e", "a", "d", "b", "e", "e", "f">>,
                        <<"c", "a", "f", "e", "b", "a", "b", "e">>>>,
           nl |-> TRUE,
           line |-> Pad(<<"5">>, 8) \o <<" ">>
                    \o <<"d", "e", "a", "d", "b", "e", "e", "f", " ">>
                    \o <<"c", "a", "f", "e", "b", "a", "b", "e", " ">>
                    \o <<"\n">>]}

\* ------------------------------------------------------------- decoder calls
\* pipe_crc_init_from_string on a line read into a fresh record.  A scan
\* past the terminator or a store past crc[] is undefined: the call goes on
\* as if a newline had been met there, or the process dies.
InitFromString ==
    /\ fcall.fn = "pipe_crc_init_from_string" /\ fret = <<>>
    /\ \E ub \in UB :
         LET r == init_from_string(fcall.is_legacy, ZeroCrc, fcall.l.line)
             crash == (r.overrun \/ r.store_oob) /\ ub = "crash"
         IN  /\ fret' = <<r>>
             /\ pc' = IF crash THEN "aborted" ELSE pc
             /\ abortReason' = IF crash THEN "SIGSEGV" ELSE abortReason
    /\ UNCHANGED <<timer, bytes_read, other, fcall, kernel, handlerRan, obj, pipe_crc, fdt, ctlLog, consumed,
                   out, crcs, n, n_crcs, oob, lastCall, callStart, lastRet, sawZero,
                   err, doStartRet, wasCapturing, scenario>>

\* igt_crc_to_string on the record a line decoded to.
CrcToString ==
    /\ fcall.fn = "pipe_crc_init_from_string" /\ Len(fret) = 1 /\ pc # "aborted"
    /\ fret[1].ret
    /\ fret' = Append(fret, igt_crc_to_string(fret[1].crc))
    /\ UNCHANGED <<timer, bytes_read, other, fcall, kernel, handlerRan, obj, pipe_crc, fdt, ctlLog, consumed,
                   out, crcs, n, n_crcs, oob, pc, abortReason, lastCall, callStart,
                   lastRet, sawZero, err, doStartRet, wasCapturing, scenario>>

\* The records the lines decode to without a fault, by ABI: what
\* igt_pipe_crc_collect_crc can hand out on a session of that ABI.
DecodedLegacy ==
    {init_from_string(TRUE, ZeroCrc, l.line).crc :
        l \in {m \in LegacyLines : init_from_string(TRUE, ZeroCrc, m.line).ret}}

DecodedGeneric ==
    {init_from_string(FALSE, ZeroCrc, l.line).crc :
        l \in {m \in GenericLines :
                  LET r == init_from_string(FALSE, ZeroCrc, m.line)
                  IN  ~r.overrun /\ ~r.store_oob}}

Decoded == DecodedLegacy \cup DecodedGeneric

\* Two different records of one session.
TwoCollected ==
    {p \in (DecodedLegacy \X DecodedLegacy) \cup (DecodedGeneric \X DecodedGeneric) :
        p[1] # p[2]}

\* Records crc_sanity_checks is given: words of all zeros, of all ones, and
\* another value.
SanityCrcs ==
    [n_words : 0..MaxWords,
     crc : [0..(MaxWords - 1) -> {Zero32, Ones32, U32OfHex(<<"1", "F">>)}]]

\* igt_warn_on_f(condition, ...): logs a warning when the condition holds
\* and lets the test go on; fail says whether the call ends the test.
igt_warn_on_f(condition) == [warn |-> condition, fail |-> FALSE]

\* Faulty variant: the powered-down warning needs every word to be all ones.
crc_sanity_checks_every_word(crc) ==
    [powered_down |-> \A i \in 0..(crc.n_words - 1) : crc.crc[i] = Ones32,
     all_zero |-> \A i \in 0..(crc.n_words - 1) : crc.crc[i] = Zero32,
     fail |-> FALSE,
     crc |-> crc]

\* Faulty variant: a suspicious record fails the test.
crc_sanity_checks_fatal(crc) ==
    LET ones == \E i \in 0..(crc.n_words - 1) : crc.crc[i] = Ones32
        zero == \A i \in 0..(crc.n_words - 1) : crc.crc[i] = Zero32
    IN  [powered_down |-> ones, all_zero |-> zero, fail |-> ones \/ zero, crc |-> crc]

\* crc_sanity_checks: the warnings it raises, whether one of them ends the
\* test, and the record after the call (it only reads crc->n_words and
\* crc->crc[i]).
crc_sanity_checks(crc) ==
    LET ones(i) == igt_warn_on_f(crc.crc[i] = Ones32)
        zero == igt_warn_on_f(\A i \in 0..(crc.n_words - 1) : crc.crc[i] = Zero32)
    IN  [powered_down |-> \E i \in 0..(crc.n_words - 1) : ones(i).warn,
         all_zero |-> zero.warn,
         fail |-> zero.fail \/ \E i \in 0..(crc.n_words - 1) : ones(i).fail,
         crc |-> crc]

CrcSanityChecks ==
    /\ fcall.fn = "crc_sanity_checks" /\ fret = <<>>
    /\ LET r == crc_sanity_checks(fcall.crc)
       IN  /\ fret' = <<r>>
           /\ pc' = IF r.fail THEN "aborted" ELSE pc
           /\ abortReason' = IF r.fail THEN "crc_sanity_checks" ELSE abortReason
    /\ UNCHANGED <<timer, bytes_read, other, fcall, kernel, handlerRan, obj, pipe_crc, fdt, ctlLog, consumed,
                   out, crcs, n, n_crcs, oob, lastCall, callStart,
                   lastRet, sawZero, err, doStartRet, wasCapturing, scenario>>

\* ------------------------------------------------------------- functions on their own
\* One call of a function that reads no session, on every argument within
\* the bounds, in a process that has made no session.
InitFn ==
    /\ fcall \in {[fn |-> "igt_debugfs_dir", sys |-> sys] : sys \in Systems}
                \cup {[fn |-> "igt_assert_crc_equal", a |-> a, b |-> b] :
                         a \in igt_crc_t, b \in igt_crc_t}
                \cup {[fn |-> "igt_assert_crc_equal", a |-> a, b |-> a] : a \in Decoded}
                \cup {[fn |-> "igt_assert_crc_equal", a |-> p[1], b |-> p[2]] :
                         p \in TwoCollected}
                \cup {[fn |-> "pipe_crc_init_from_string", is_legacy |-> TRUE, l |-> l] :
                         l \in LegacyLines}
                \cup {[fn |-> "pipe_crc_init_from_string", is_legacy |-> FALSE, l |-> l] :
                         l \in GenericLines}
                \cup {[fn |-> "crc_sanity_checks", crc |-> c] : c \in SanityCrcs}
    /\ fret = <<>>
    /\ kernel = "generic"
    /\ obj = "null"
    /\ pipe_crc = ZeroPipeCrc
    /\ fdt = (0 :> "stdio") @@ (1 :> "stdio") @@ (2 :> "stdio") @@ (3 :> "drm")
    /\ ctlLog = <<>>
    /\ consumed = 0
    /\ out = EmptyCrc
    /\ crcs = <<>>
    /\ n = 0
    /\ n_crcs = 0
    /\ oob = FALSE
    /\ pc = "client"
    /\ abortReason = "none"
    /\ lastCall = "none"
    /\ callStart = 0
    /\ lastRet = "none"
    /\ sawZero = FALSE
    /\ err = "none"
    /\ doStartRet = TRUE
    /\ wasCapturing = FALSE
    /\ scenario = 0
    /\ handlerRan = FALSE
    /\ other = <<>>
    /\ timer = "off"
    /\ bytes_read = "none"

NextFn ==
    \/ DebugfsDir
    \/ AssertCrcEqual
    \/ InitFromString
    \/ CrcToString
    \/ CrcSanityChecks

SpecFn == InitFn /\ [][NextFn]_vars

\* ------------------------------------------------------------- read_crc, statement by statement
\* read_crc in its steps: igt_set_timeout, read, igt_reset_timeout, then the
\* rest (the EAGAIN assertion, the terminator, the decoder, the return), each
\* an action, called from the loop of read_one_crc or of
\* igt_pipe_crc_get_crcs.  pc names the statement read_crc is at.
\* read_one_crc called by a client, up to its first read_crc.
ReadOneBegin ==
    /\ CanCall
    /\ pc' = "rc_set"
    /\ lastCall' = "read_one"
    /\ callStart' = consumed
    /\ wasCapturing' = Capturing(pipe_crc, fdt, ctlLog)
    /\ out' = EmptyCrc
    /\ scenario' = -1
    /\ sawZero' = FALSE
    /\ UNCHANGED <<timer, bytes_read, other, fcall, fret, kernel, handlerRan, obj,
                   pipe_crc, fdt, ctlLog, consumed, crcs, n, n_crcs, oob, abortReason,
                   lastRet, err, doStartRet>>

\* igt_pipe_crc_get_crcs called by a client, up to its first read_crc.
GetCrcsBegin ==
    /\ CanCall
    /\ \E N \in 0..MaxCrcs :
         /\ n_crcs' = N
         /\ crcs' = [i \in 1..N |-> EmptyCrc]
    /\ n' = 0
    /\ oob' = FALSE
    /\ sawZero' = FALSE
    /\ pc' = "rc_set"
    /\ lastCall' = "get_crcs"
    /\ callStart' = consumed
    /\ wasCapturing' = Capturing(pipe_crc, fdt, ctlLog)
    /\ scenario' = -1
    /\ UNCHANGED <<timer, bytes_read, other, fcall, fret, kernel, handlerRan, obj,
                   pipe_crc, fdt, ctlLog, consumed, out, abortReason, lastRet, err,
                   doStartRet>>

\* igt_set_timeout(5, "CRC reading")
SetTimeout ==
    /\ pc = "rc_set"
    /\ timer' = "armed"
    /\ pc' = "rc_read"
    /\ UNCHANGED <<bytes_read, other, fcall, fret, kernel, handlerRan, obj, pipe_crc,
                   fdt, ctlLog, consumed, out, crcs, n, n_crcs, oob, abortReason,
                   lastCall, callStart, lastRet, sawZero, err, doStartRet,
                   wasCapturing, scenario>>

\* read(pipe_crc->crc_fd, &buf, read_len) gives the bytes of a line.
ReadLine ==
    /\ pc = "rc_read"
    /\ \E rd \in read(fdt, pipe_crc.crc_fd, consumed) \cap {"line_ok", "line_bad"} :
         bytes_read' = rd
    /\ pc' = "rc_reset"
    /\ UNCHANGED <<timer, other, fcall, fret, kernel, handlerRan, obj, pipe_crc,
                   fdt, ctlLog, consumed, out, crcs, n, n_crcs, oob, abortReason,
                   lastCall, callStart, lastRet, sawZero, err, doStartRet,
                   wasCapturing, scenario>>

\* read gives no byte: the end of the file or an error.
ReadNothing ==
    /\ pc = "rc_read"
    /\ \E rd \in read(fdt, pipe_crc.crc_fd, consumed)
                 \ {"line_ok", "line_bad", "timeout"} :
         bytes_read' = rd
    /\ pc' = "rc_reset"
    /\ UNCHANGED <<timer, other, fcall, fret, kernel, handlerRan, obj, pipe_crc,
                   fdt, ctlLog, consumed, out, crcs, n, n_crcs, oob, abortReason,
                   lastCall, callStart, lastRet, sawZero, err, doStartRet,
                   wasCapturing, scenario>>

\* read does not return within the five seconds: the armed watchdog ends
\* the process.
ReadTimeout ==
    /\ pc = "rc_read" /\ timer # "off"
    /\ "timeout" \in read(fdt, pipe_crc.crc_fd, consumed)
    /\ pc' = "aborted"
    /\ abortReason' = "igt_set_timeout"
    /\ UNCHANGED <<timer, bytes_read, other, fcall, fret, kernel, handlerRan, obj,
                   pipe_crc, fdt, ctlLog, consumed, out, crcs, n, n_crcs, oob,
                   lastCall, callStart, lastRet, sawZero, err, doStartRet,
                   wasCapturing, scenario>>

\* Faulty variant: read_crc goes on without igt_reset_timeout.
ResetTimeoutLeftOut ==
    /\ pc = "rc_reset"
    /\ pc' = "rc_rest"
    /\ UNCHANGED <<timer, bytes_read, other, fcall, fret, kernel, handlerRan, obj,
                   pipe_crc, fdt, ctlLog, consumed, out, crcs, n, n_crcs, oob,
                   abortReason, lastCall, callStart, lastRet, sawZero, err,
                   doStartRet, wasCapturing, scenario>>

\* igt_reset_timeout()
ResetTimeout ==
    /\ pc = "rc_reset"
    /\ timer' = "off"
    /\ pc' = "rc_rest"
    /\ UNCHANGED <<bytes_read, other, fcall, fret, kernel, handlerRan, obj, pipe_crc,
                   fdt, ctlLog, consumed, out, crcs, n, n_crcs, oob, abortReason,
                   lastCall, callStart, lastRet, sawZero, err, doStartRet,
                   wasCapturing, scenario>>

\* The rest of read_crc in the loop of read_one_crc, and the test of that
\* loop: read_crc returned 0: sleep and call it again; otherwise return.
ReadOneRest ==
    /\ pc = "rc_rest" /\ lastCall = "read_one"
    /\ \E ub \in (IF pipe_crc.is_legacy THEN {"silent"} ELSE UB) :
         LET r == read_crc(pipe_crc, bytes_read, consumed + 1, ub)
             next == read_one_crc("read_one", lastCall, r.ret)
         IN  /\ consumed' = IF r.wrote THEN consumed + 1 ELSE consumed
             /\ out' = IF r.wrote THEN r.crc ELSE out
             /\ lastRet' = r.ret
             /\ sawZero' = (sawZero \/ (r.abort = "none" /\ r.ret = "zero"))
             /\ abortReason' = r.abort
             /\ pc' = IF r.abort # "none" THEN "aborted"
                      ELSE IF next = "return" THEN "client"
                      ELSE "rc_set"
    /\ bytes_read' = "none"
    /\ UNCHANGED <<timer, other, fcall, fret, kernel, handlerRan, obj, pipe_crc, fdt,
                   ctlLog, crcs, n, n_crcs, oob, lastCall, callStart, err,
                   doStartRet, wasCapturing, scenario>>

\* The rest of read_crc in the loop of igt_pipe_crc_get_crcs, and the rest
\* of that turn of the loop.
GetCrcsRest ==
    /\ pc = "rc_rest" /\ lastCall = "get_crcs"
    /\ \E ub \in (IF pipe_crc.is_legacy /\ n < n_crcs THEN {"silent"} ELSE UB) :
         LET r == read_crc(pipe_crc, bytes_read, consumed + 1, ub)
             inside == n < n_crcs
             smashed == r.wrote /\ ~inside
             abort == IF r.abort # "none" THEN r.abort
                      ELSE IF smashed /\ ub = "crash" THEN "SIGSEGV"
                      ELSE "none"
             n1 == IF r.ret = "line" THEN n + 1 ELSE n
         IN  /\ consumed' = IF r.wrote THEN consumed + 1 ELSE consumed
             /\ crcs' = IF r.wrote /\ inside THEN [crcs EXCEPT ![n + 1] = r.crc]
                        ELSE crcs
             /\ oob' = (oob \/ smashed)
             /\ lastRet' = r.ret
             /\ sawZero' = (sawZero \/ (abort = "none" /\ r.ret = "zero"))
             /\ abortReason' = abort
             /\ n' = IF abort = "none" THEN n1 ELSE n
             /\ pc' = IF abort # "none" THEN "aborted"
                      ELSE IF r.ret # "zero" /\ n1 < n_crcs THEN "rc_set"
                      ELSE "client"
    /\ bytes_read' = "none"
    /\ UNCHANGED <<timer, other, fcall, fret, kernel, handlerRan, obj, pipe_crc, fdt,
                   ctlLog, out, n_crcs, lastCall, callStart, err, doStartRet,
                   wasCapturing, scenario>>

\* A client that constructs, starts and stops a session and reads from it,
\* with read_crc taken statement by statement.  (ReadOneStep is the whole
\* read_crc of the warm-up reads of igt_pipe_crc_start.)
NextRead ==
    \/ New
    \/ Start
    \/ Stop
    \/ ReadOneStep
    \/ ReadOneBegin
    \/ GetCrcsBegin
    \/ SetTimeout
    \/ ReadLine
    \/ ReadNothing
    \/ ReadTimeout
    \/ ResetTimeout
    \/ ReadOneRest
    \/ GetCrcsRest

SpecRead == Init /\ [][NextRead]_vars

\* ------------------------------------------------------------- the public read under a fair data source
\* One session and its public reads. The process goes on running (weak
\* fairness on the statements of read_crc and on the read() ending one way
\* or another), and the data source is fair: a reader that keeps asking
\* while a line is to be had gets it at last (strong fairness on ReadLine).
ReadEnds == ReadLine \/ ReadNothing \/ ReadTimeout

NextReadOne ==
    \/ New
    \/ Start
    \/ ReadOneStep
    \/ ReadOneBegin
    \/ SetTimeout
    \/ ReadLine
    \/ ReadNothing
    \/ ReadTimeout
    \/ ResetTimeout
    \/ ReadOneRest

SpecReadFair ==
    /\ Init
    /\ [][NextReadOne]_vars
    /\ WF_vars(SetTimeout)
    /\ WF_vars(ReadEnds)
    /\ WF_vars(ResetTimeout)
    /\ WF_vars(ReadOneRest)
    /\ SF_vars(ReadLine)

\* ------------------------------------------------------------- two sessions, one pipe
\* igt_pipe_crc_new or igt_pipe_crc_new_nonblock called for the pipe of a
\* session that is Capturing, by a client that keeps the first session.
\* pipe_crc_new looks at no session that exists: it opens its own files.
\* The first session is kept in other; pipe_crc is the second from here on.
SecondNew ==
    /\ pc = "client" /\ obj = "live" /\ other = <<>>
    /\ Capturing(pipe_crc, fdt, ctlLog)
    /\ \E source \in Sources,
          flags \in {O_RDONLY, O_RDONLY \cup O_NONBLOCK},
          dirOk \in BOOLEAN,
          dataOk \in (IF kernel = "legacy" THEN BOOLEAN ELSE {TRUE}) :
         LET r == pipe_crc_new(fdt, kernel, 3, pipe_crc.pipe, source, flags,
                               dirOk, dataOk)
         IN  /\ other' = <<pipe_crc>>
             /\ pipe_crc' = r.s
             /\ fdt' = r.t
             /\ pc' = IF r.abort = "none" THEN "client" ELSE "aborted"
             /\ abortReason' = r.abort
    /\ lastCall' = "new"
    /\ scenario' = -1
    /\ UNCHANGED <<timer, bytes_read, fcall, fret, kernel, handlerRan, obj, ctlLog, consumed, out, crcs,
                   n, n_crcs, oob, callStart, lastRet, sawZero, err, doStartRet,
                   wasCapturing>>

\* A client that constructs and starts a session, then a second one for the
\* same pipe.
NextTwo ==
    \/ New
    \/ Start
    \/ ReadOneStep
    \/ SecondNew

SpecTwo == Init /\ [][NextTwo]_vars

\* ------------------------------------------------------------- properties
Returned(call) == pc = "client" /\ lastCall = call

Blocking == ~(O_NONBLOCK \subseteq pipe_crc.flags)

DisableCmd == <<"pipe", kmstest_pipe_name(pipe_crc.pipe), "none">>

\* C1 (as claimed): when the open of the data file fails with EINVAL, start
\* returns false to its caller instead of asserting, and the caller of the
\* public start goes on.
C1_SoftFailureReachesCaller ==
    err = "EINVAL" => (~doStartRet /\ pc # "aborted")

\* C1 (amended): when the open of the data file fails with EINVAL,
\* igt_pipe_crc_do_start returns false without asserting, leaving crc_fd
\* invalid, and the public igt_pipe_crc_start fails its own assertion on
\* that result, so the process ends there.
C1_SoftFailureAssertedByPublicStart ==
    err = "EINVAL" =>
        /\ ~doStartRet
        /\ pipe_crc.crc_fd = -1
        /\ pc = "aborted"
        /\ abortReason = "igt_pipe_crc_start:do_start"

C1_Witness ==
    /\ err = "EINVAL" /\ ~pipe_crc.is_legacy /\ lastCall = "start"
    /\ pc = "aborted" /\ ~doStartRet

\* C2: igt_pipe_crc_get_crcs never stores a record outside the n_crcs slots it
\* allocated, returns n <= n_crcs, and returns n < n_crcs only when a read
\* yielded zero bytes.
C2_GetCrcsWithinMaxCount ==
    /\ ~oob
    /\ Returned("get_crcs") => (n <= n_crcs /\ (n < n_crcs => sawZero))

\* C3: on a session built in blocking mode, igt_pipe_crc_get_crcs returns
\* n_crcs.
C3_BlockingGetCrcsReturnsAll ==
    (Returned("get_crcs") /\ Blocking) => n = n_crcs

\* C4: read_one_crc returns only after a line was read and the decoder
\* accepted it: when it has returned, its last read_crc returned the bytes of
\* a decoded line, stored in the caller's record.
C4_ReadOneReturnsDecodedLine ==
    (Returned("read_one") \/ Returned("collect")) =>
        (lastRet = "line" /\ out.line > callStart)

\* C5 (as claimed): a line that fails to decode aborts the test.
C5_DecodeFailureAborts ==
    lastRet = "einval" => pc = "aborted"

\* C5 (amended): a line that fails to decode trips no assertion: read_crc
\* returns -EINVAL, on which igt_pipe_crc_get_crcs goes to its loop condition
\* without counting the line and read_one_crc stops waiting and returns.
\* (The assertion of the write in the stop of collect_crc, and the fault of a
\* store outside crcs, are separate.)
C5_DecodeFailureNotAsserted ==
    [][(lastRet' = "einval" /\ consumed' = consumed + 1) =>
          /\ abortReason' \in {"none", "igt_pipe_crc_stop:write", "SIGSEGV"}
          /\ (pc = "get_crcs" /\ abortReason' = "none") =>
                 (n' = n /\ pc' = IF n < n_crcs THEN "get_crcs" ELSE "client")
          /\ (pc # "get_crcs" /\ abortReason' = "none") => pc' # pc]_vars

C5_Witness ==
    /\ lastRet = "einval" /\ pc = "get_crcs" /\ n = 0 /\ consumed = 1
    /\ crcs[1].line = 1 /\ ~crcs[1].decoded

\* C6: on a legacy session igt_pipe_crc_collect_crc reads three lines after
\* its start command; the caller's record is never stored to from the first
\* two and holds the third when the call returns.
C6_LegacyCollectDiscardsTwo ==
    (pipe_crc.is_legacy /\ lastCall = "collect") =>
        /\ out.line \in {0, callStart + 3}
        /\ pc = "client" => (out.line = callStart + 3 /\ consumed = callStart + 3)

C6_Witness ==
    /\ pipe_crc.is_legacy /\ Returned("collect")
    /\ out = [line |-> 3, decoded |-> TRUE]
    /\ Len(ctlLog) = 3

\* C7: new, start, readOne, stop, free on a generic session on pipe B with
\* source auto ends with the control, data and directory descriptors closed
\* and one data line consumed; an assertion fails on the way only when the
\* kernel refuses a write or an open, or a read times out, would block on a
\* blocking session or delivers a line without its newline.
C7_ScenarioClosesEverything ==
    /\ scenario = 5 =>
          /\ OpenOf(fdt, "ctl") = {} /\ OpenOf(fdt, "data") = {}
          /\ OpenOf(fdt, "dir") = {}
          /\ DOMAIN fdt = 0..3
          /\ consumed = 1 /\ out.line = 1
          /\ abortReason = "none"
    /\ (scenario \in 1..5 /\ pc = "aborted") =>
          abortReason \in {"igt_pipe_crc_do_start:write", "igt_pipe_crc_do_start:open",
                           "igt_pipe_crc_start:do_start", "igt_set_timeout",
                           "read_crc:EAGAIN", "SIGSEGV"}

C7_Witness ==
    /\ scenario = 5 /\ obj = "freed" /\ out.decoded
    /\ kmstest_pipe_name(pipe_crc.pipe) = "B" /\ ctlLog = << <<"auto">> >>

\* C8: igt_pipe_crc_collect_crc returns only after a line was read in the
\* call, in blocking and in non-blocking mode: its last read_crc did not
\* return zero and stored the line in the caller's record.
C8_CollectReturnsAfterLine ==
    Returned("collect") =>
        /\ lastRet \in {"line", "einval"}
        /\ consumed > callStart
        /\ out.line = consumed

C8_Witness ==
    /\ Returned("collect") /\ ~Blocking /\ out.line = consumed /\ consumed > 0

\* C9: when igt_pipe_crc_collect_crc has returned the session is Idle: the
\* data descriptor of a generic session is closed and crc_fd is -1, the last
\* command on the control file of a legacy session is the disable command.
C9_CollectLeavesIdle ==
    Returned("collect") =>
        /\ ~Capturing(pipe_crc, fdt, ctlLog)
        /\ IF pipe_crc.is_legacy
           THEN ctlLog[Len(ctlLog)] = DisableCmd
           ELSE pipe_crc.crc_fd = -1 /\ OpenOf(fdt, "data") = {}

C9_Witness ==
    Returned("collect") /\ wasCapturing /\ ~pipe_crc.is_legacy

\* C10: a session has at most one open data descriptor, and it is the one in
\* crc_fd: start on a Capturing session closes the previous one before it
\* opens the next.
C10_AtMostOneDataHandle ==
    /\ Cardinality(OpenOf(fdt, "data")) <= 1
    /\ OpenOf(fdt, "data") \subseteq {pipe_crc.crc_fd}

C10_Witness ==
    /\ Returned("start") /\ wasCapturing /\ ~pipe_crc.is_legacy
    /\ IsOpen(fdt, pipe_crc.crc_fd, "data") /\ Len(ctlLog) = 2

\* C11: igt_pipe_crc_stop on a session that is not Capturing (stopped, or
\* never started) changes neither the session nor the descriptor table.  On
\* a generic session it leaves crc_fd at -1 and writes nothing; on a legacy
\* session it appends one more disable command, unless the kernel refuses
\* the write and the assertion on it ends the process.
C11_StopOnStoppedSession ==
    [][(CanCall /\ lastCall' = "stop" /\ ~Capturing(pipe_crc, fdt, ctlLog)) =>
          /\ pipe_crc' = pipe_crc
          /\ fdt' = fdt
          /\ IF pipe_crc.is_legacy
             THEN \/ pc' = "client" /\ ctlLog' = Append(ctlLog, DisableCmd)
                  \/ /\ pc' = "aborted" /\ ctlLog' = ctlLog
                     /\ abortReason' = "igt_pipe_crc_stop:write"
             ELSE pc' = "client" /\ ctlLog' = ctlLog /\ pipe_crc.crc_fd = -1]_vars

\* stop, stop on a generic session that was capturing before the first
C11_Witness ==
    /\ Returned("stop") /\ ~wasCapturing /\ ~pipe_crc.is_legacy
    /\ pipe_crc.crc_fd = -1 /\ ctlLog = << <<"auto">> >>
    /\ DOMAIN fdt = 0..5

\* C12 (as claimed): igt_pipe_crc_free closes the control, data and directory
\* descriptors of a live session, and changes nothing when the pointer is
\* null or the session was freed before.
C12_FreeNoopOnNullAndFreed ==
    [][lastCall' = "free" =>
          IF obj = "live"
          THEN /\ DOMAIN fdt' = DOMAIN fdt \ {pipe_crc.ctl_fd, pipe_crc.crc_fd,
                                              pipe_crc.dir}
               /\ pc' = "client"
          ELSE UNCHANGED <<fdt, obj, pc, abortReason>>]_vars

\* C12 (amended): igt_pipe_crc_free closes the control, data and directory
\* descriptors of a live session and nothing else, and changes nothing when
\* the pointer is null.  On a pointer that was freed before it does not
\* return as a no-op in every run: it closes the descriptor numbers left in
\* the released record again and releases the record twice, and the process
\* may die there.
C12_FreeClosesLiveNoopOnNull ==
    [][lastCall' = "free" =>
          /\ obj = "live" =>
                /\ DOMAIN fdt' = DOMAIN fdt \ {pipe_crc.ctl_fd, pipe_crc.crc_fd,
                                               pipe_crc.dir}
                /\ OpenOf(fdt, "ctl") \cup OpenOf(fdt, "dir") \cup OpenOf(fdt, "data")
                      = DOMAIN fdt \ DOMAIN fdt'
                /\ obj' = "freed" /\ pc' = "client"
          /\ obj = "null" => UNCHANGED <<fdt, obj, pc, abortReason>>
          /\ obj = "freed" =>
                /\ obj' = "freed"
                /\ \/ pc' = "client" /\ DOMAIN fdt' = DOMAIN fdt \ {pipe_crc.ctl_fd,
                                                     pipe_crc.crc_fd, pipe_crc.dir}
                   \/ pc' = "aborted" /\ abortReason' = "double free"]_vars

\* a legacy session freed (three descriptors closed), then freed again
C12_Witness ==
    /\ lastCall = "free" /\ obj = "freed" /\ pipe_crc.is_legacy
    /\ DOMAIN fdt = 0..3 /\ pipe_crc.crc_fd = 6
    /\ pc = "aborted" /\ abortReason = "double free"

\* C13: once pipe_crc_new has returned the session, no operation on it
\* changes is_legacy, pipe, source or flags (nor fd, dir or ctl_fd): start,
\* stop, the reads, get_crcs and collect_crc store to crc_fd only.
C13_AbiDecidedOnce ==
    [][obj = "live" =>
          /\ pipe_crc'.is_legacy = pipe_crc.is_legacy
          /\ pipe_crc'.pipe = pipe_crc.pipe
          /\ pipe_crc'.source = pipe_crc.source
          /\ pipe_crc'.flags = pipe_crc.flags
          /\ [pipe_crc' EXCEPT !.crc_fd = 0] = [pipe_crc EXCEPT !.crc_fd = 0]
          /\ pipe_crc.is_legacy = (kernel = "legacy")]_vars

\* a generic non-blocking session after start, get_crcs, stop
C13_Witness ==
    /\ Returned("stop") /\ wasCapturing /\ ~pipe_crc.is_legacy /\ consumed = 2
    /\ pipe_crc.flags = O_NONBLOCK /\ pipe_crc.pipe = 1 /\ pipe_crc.source = 9
    /\ n = 2

\* C14: when pipe_crc_new has returned, the session is generic (is_legacy
\* false, crc_fd = -1, no data file open, the control file open) if the
\* debugfs has crtc-<pipe>/crc/control, and legacy with the legacy control
\* file and the legacy data file of the pipe both open otherwise.  It fails
\* an assertion instead of returning only when the debugfs directory, the
\* legacy control file or the legacy data file cannot be opened, never when
\* the generic control file can.
C14_ConstructionPicksAbi ==
    lastCall = "new" =>
        /\ pc \in {"client", "aborted"}
        /\ pc = "client" =>
              /\ obj = "live" /\ kernel # "none"
              /\ pipe_crc.is_legacy = (kernel = "legacy")
              /\ IsOpen(fdt, pipe_crc.dir, "dir")
              /\ IsOpen(fdt, pipe_crc.ctl_fd, "ctl")
              /\ IF pipe_crc.is_legacy
                 THEN IsOpen(fdt, pipe_crc.crc_fd, "data")
                 ELSE pipe_crc.crc_fd = -1 /\ OpenOf(fdt, "data") = {}
        /\ pc = "aborted" =>
              /\ obj = "null"
              /\ abortReason \in {"pipe_crc_new:debugfs", "pipe_crc_new:ctl_fd",
                                  "pipe_crc_new:crc_fd"}
              /\ abortReason = "pipe_crc_new:ctl_fd" => kernel = "none"
              /\ abortReason = "pipe_crc_new:crc_fd" => kernel = "legacy"

\* a legacy session as constructed: directory 4, control 5, data 6
C14_Witness ==
    /\ Returned("new") /\ pipe_crc.is_legacy /\ kernel = "legacy"
    /\ pipe_crc.dir = 4 /\ pipe_crc.ctl_fd = 5 /\ pipe_crc.crc_fd = 6
    /\ IsOpen(fdt, 6, "data")

\* C15: what a call writes to the control file is fixed by the ABI.  A start
\* (alone or in collect_crc) of a legacy session writes "pipe <P> none" and
\* then "pipe <P> <source>", a stop (alone or at the end of collect_crc)
\* writes "pipe <P> none" and nothing else; a start of a generic session
\* writes "<source>" and nothing else, whether the open of the data file
\* that follows succeeds or not, and opens no data file when the write is
\* refused; a generic stop writes nothing.  No other operation on a session
\* writes.  A write the kernel refuses fails an assertion and is the last
\* thing the call does.
C15_ControlWritesByAbi ==
    [][LET P == kmstest_pipe_name(pipe_crc.pipe)
           source == pipe_crc_source_name(pipe_crc.source)
       IN  /\ (CanCall /\ lastCall' \in {"start", "collect"}) =>
                 IF pipe_crc.is_legacy
                 THEN \/ /\ ctlLog' = ctlLog \o <<DisableCmd, <<"pipe", P, source>> >>
                         /\ abortReason' = "none"
                      \/ /\ ctlLog' = Append(ctlLog, DisableCmd)
                         /\ abortReason' = "igt_pipe_crc_do_start:write"
                      \/ /\ ctlLog' = ctlLog
                         /\ abortReason' = "igt_pipe_crc_stop:write"
                 ELSE \/ /\ ctlLog' = Append(ctlLog, <<source>>)
                         /\ abortReason' # "igt_pipe_crc_do_start:write"
                      \/ /\ ctlLog' = ctlLog
                         /\ abortReason' = "igt_pipe_crc_do_start:write"
                         /\ OpenOf(fdt', "data") = {}
           /\ (CanCall /\ lastCall' = "stop") =>
                 IF pipe_crc.is_legacy
                 THEN \/ ctlLog' = Append(ctlLog, DisableCmd) /\ abortReason' = "none"
                      \/ ctlLog' = ctlLog /\ abortReason' = "igt_pipe_crc_stop:write"
                 ELSE ctlLog' = ctlLog
           /\ pc = "collect_read" =>
                 \/ ctlLog' = ctlLog
                 \/ /\ pipe_crc.is_legacy /\ pc' = "client"
                    /\ ctlLog' = Append(ctlLog, DisableCmd)
           /\ (pc # "collect_read"
               /\ lastCall' \notin {"start", "collect", "stop", "require"}) =>
                 ctlLog' = ctlLog]_vars

\* start then stop on a legacy session
C15_Witness ==
    /\ Returned("stop") /\ pipe_crc.is_legacy
    /\ ctlLog = << <<"pipe", "B", "none">>, <<"pipe", "B", "auto">>,
                   <<"pipe", "B", "none">> >>

\* C16: when the process of a legacy session has ended abnormally and
\* pipe_crc_exit_handler has run, the session is not Capturing: the last
\* command on the legacy control file is a disable command.
C16_ExitHandlerDisablesLegacy ==
    (handlerRan /\ obj = "live" /\ pipe_crc.is_legacy) =>
        ~Capturing(pipe_crc, fdt, ctlLog)

\* C17: igt_require_pipe_crc skips the test exactly when CRC capture is not
\* supported: it goes on when the debugfs has crtc-0/crc/control or when the
\* legacy control file took "pipe A none", and skips otherwise.
C17_RequireSkipsIffUnsupported ==
    lastCall = "require" =>
        (pc = "skipped") =
            ~(kernel = "generic"
              \/ (kernel = "legacy" /\ ctlLog = << <<"pipe", "A", "none">> >>))

\* C18: igt_debugfs_dir fails no assertion, and returns -1 when the
\* descriptor is not a character device, when the debugfs is neither found
\* nor mountable, and when the device has no numbered directory under dri/.
C18_DebugfsDirNeverAborts ==
    (fcall.fn = "igt_debugfs_dir" /\ fret # <<>>) =>
        LET sys == fcall.sys
            r == fret[1]
        IN  /\ ~r.abort /\ pc # "aborted"
            /\ (~sys.ischr \/ ~HasName(sys, sys.minor)
                \/ sys.debugfs \in {"unmountable", "no_sys_dir"}) => r.fd = -1
            /\ r.fd # -1 => IsOpen(fdt, r.fd, "dir")

\* C19: for a minor of 64 or more igt_debugfs_dir opens dri/<i> for the
\* lowest i in 0..15 whose name file has the length and the bytes of the
\* device's own, and returns -1 exactly when there is no such i; for a minor
\* below 64 it opens dri/<minor>.  (Stated for the calls that get as far as
\* the device's own name file.)
C19_LowestMatchingName ==
    (/\ fcall.fn = "igt_debugfs_dir" /\ fret # <<>>
     /\ fcall.sys.fstatOk /\ fcall.sys.ischr
     /\ HasName(fcall.sys, fcall.sys.minor)) =>
        LET sys == fcall.sys
            r == fret[1]
            matching == {i \in 0..15 : /\ HasName(sys, i)
                                       /\ sys.dri[i] = sys.dri[sys.minor]}
        IN  IF sys.minor < 64
            THEN r.fd # -1 /\ r.idx = sys.minor
            ELSE /\ (r.fd = -1) = (matching = {})
                 /\ r.fd # -1 => (r.idx \in matching /\ \A i \in matching : r.idx <= i)

\* C20: igt_assert_crc_equal(a, b) passes exactly when the words of a and b
\* agree at every index below the smaller of the two n_words, and
\* igt_assert_crc_equal(b, a) has the same outcome.
C20_ComparesUpToShorter ==
    (fcall.fn = "igt_assert_crc_equal" /\ fret # <<>>) =>
        LET a == fcall.a
            b == fcall.b
            m == IF a.n_words < b.n_words THEN a.n_words ELSE b.n_words
        IN  /\ fret[1] = (\A i \in 0..(m - 1) : a.crc[i] = b.crc[i])
            /\ fret[1] = igt_assert_crc_equal(b, a)

\* C21: igt_assert_crc_equal(a, a) passes for every record a a line decoded
\* to, whatever its word count in 0..10: the call returns and no assertion
\* fails.
C21_EqualIsReflexive ==
    (fcall.fn = "igt_assert_crc_equal" /\ fcall.a = fcall.b /\ fret # <<>>)
        => fret[1] /\ pc # "aborted"

\* A record of ten different-looking words, decoded from a generic line, was
\* compared with itself and the call returned.
C21_Witness ==
    /\ fcall.fn = "igt_assert_crc_equal" /\ fcall.a = fcall.b
    /\ fcall.a \in Decoded /\ fcall.a.n_words = 10
    /\ fret = <<TRUE>> /\ pc = "client"

\* C22 (as stated): every legacy line of six 8-hex-digit fields with blanks
\* between them decodes with success, valid = true, n_words = 5, frame the
\* hexadecimal value of the first field and crc[0..4] the hexadecimal values
\* of fields two to six.
C22_LegacyFieldsAllHex ==
    (/\ fcall.fn = "pipe_crc_init_from_string" /\ fcall.is_legacy
     /\ fcall.l \in LegacyWellFormed /\ fret # <<>>)
        => /\ fret[1].ret
           /\ fret[1].crc.has_valid_frame /\ fret[1].crc.n_words = 5
           /\ fret[1].crc.frame = U32OfHex(fcall.l.fields[1])
           /\ \A i \in 0..4 : fret[1].crc.crc[i] = U32OfHex(fcall.l.fields[i + 2])

\* C22 (amended): every legacy line whose first field is a decimal number of
\* at most eight digits and whose five other fields are hexadecimal numbers
\* of at most eight digits, padded with zeros or blanks, decodes with
\* success, valid = true, n_words = 5, frame the decimal value of the first
\* field and crc[0..4] the hexadecimal values of fields two to six;
\* "00000001 0000abcd 00000000 00000000 00000000 00000000" gives frame 1 and
\* crc [0xabcd, 0, 0, 0, 0].
C22_LegacyFrameDecimal ==
    (/\ fcall.fn = "pipe_crc_init_from_string" /\ fcall.is_legacy
     /\ fcall.l \in LegacyWellFormed \cup LegacyPrinted
     /\ \A i \in 1..Len(fcall.l.fields[1]) : IsDec(fcall.l.fields[1][i])
     /\ fret # <<>>)
        => /\ fret[1].ret /\ pc # "aborted"
           /\ fret[1].crc.has_valid_frame /\ fret[1].crc.n_words = 5
           /\ fret[1].crc.frame = U32OfDec(fcall.l.fields[1])
           /\ \A i \in 0..4 : fret[1].crc.crc[i] = U32OfHex(fcall.l.fields[i + 2])
           /\ (fcall.l.fields[1] = Pad(<<"1", "0">>, 8)
                  => fret[1].crc.frame = <<0, 0, 0, 0, 0, 0, 0, 10>>)
           /\ (fcall.l.fields[1] = <<"1", "2", "3", "4", "5", "6", "7", "8">>
                  => fret[1].crc.frame = <<0, 0, 11, 12, 6, 1, 4, 14>>)

\* The line of the claim's example was decoded: frame 1, crc [0xabcd, 0, 0, 0, 0].
C22_Witness ==
    /\ fcall.fn = "pipe_crc_init_from_string" /\ fcall.is_legacy
    /\ fcall.l.fields = <<Pad(<<"1">>, 8), Pad(<<"a", "b", "c", "d">>, 8),
                          Pad(<<>>, 8), Pad(<<>>, 8), Pad(<<>>, 8), Pad(<<>>, 8)>>
    /\ fret # <<>> /\ fret[1].ret
    /\ fret[1].crc.frame = <<0, 0, 0, 0, 0, 0, 0, 1>>
    /\ fret[1].crc.crc[0] = <<0, 0, 0, 0, 10, 11, 12, 13>>
    /\ \A i \in 1..4 : fret[1].crc.crc[i] = Zero32
    /\ fret[1].crc.has_valid_frame /\ fret[1].crc.n_words = 5

\* C23: on a legacy session a line that is not six fields of eight
\* hexadecimal digits separated by white space is a decode failure: the
\* decoder returns false (read_crc then returns -EINVAL) and never reports
\* success with shifted or truncated fields.
C23_LegacyMalformedFails ==
    (/\ fcall.fn = "pipe_crc_init_from_string" /\ fcall.is_legacy
     /\ fcall.l \in LegacyMalformed /\ fret # <<>>)
        => ~fret[1].ret

\* C24 (as stated): the generic decoder applied to
\* "00000005 deadbeef cafebabe " and a newline gives frame = 5, valid = true,
\* n_words = 2 and crc = [0xdeadbeef, 0xcafebabe], and stops at the newline
\* of the line without reading past it.
C24_ExampleOfNineCharacterFields ==
    (/\ fcall.fn = "pipe_crc_init_from_string" /\ ~fcall.is_legacy
     /\ fcall.l.line = Pad(<<"5">>, 8) \o <<" ">>
                       \o <<"d", "e", "a", "d", "b", "e", "e", "f", " ">>
                       \o <<"c", "a", "f", "e", "b", "a", "b", "e", " ">> \o <<"\n">>
     /\ fret # <<>>)
        => /\ fret[1].crc.frame = <<0, 0, 0, 0, 0, 0, 0, 5>>
           /\ fret[1].crc.has_valid_frame /\ fret[1].crc.n_words = 2
           /\ fret[1].crc.crc[0] = <<13, 14, 10, 13, 11, 14, 14, 15>>
           /\ fret[1].crc.crc[1] = <<12, 10, 15, 14, 11, 10, 11, 14>>
           /\ ~fret[1].overrun /\ pc # "aborted"

\* C24 (amended): the generic decoder applied to a line of a frame field of
\* ten characters and fields of eleven characters,
\* each a blank, "0x" and eight digits, "0x00000005 0xdeadbeef 0xcafebabe"
\* and a newline, gives frame = 5, valid = true, n_words = 2 and
\* crc = [0xdeadbeef, 0xcafebabe], and stops at the newline of the line
\* without reading past it.
C24_ExampleOfElevenCharacterFields ==
    (/\ fcall.fn = "pipe_crc_init_from_string" /\ ~fcall.is_legacy
     /\ fcall.l.frame = <<"0", "x">> \o Pad(<<"5">>, 8)
     /\ fcall.l.layout = "kernel"
     /\ fcall.l.fields = <<<<"d", "e", "a", "d", "b", "e", "e", "f">>,
                           <<"C", "A", "F", "E", "b", "a", "b", "e">>>>
     /\ fcall.l.nl /\ fret # <<>>)
        => /\ fret[1].ret
           /\ fret[1].crc.frame = <<0, 0, 0, 0, 0, 0, 0, 5>>
           /\ fret[1].crc.has_valid_frame /\ fret[1].crc.n_words = 2
           /\ fret[1].crc.crc[0] = <<13, 14, 10, 13, 11, 14, 14, 15>>
           /\ fret[1].crc.crc[1] = <<12, 10, 15, 14, 11, 10, 11, 14>>
           /\ ~fret[1].overrun /\ ~fret[1].store_oob /\ pc # "aborted"

\* "0x00000005 0xdeadbeef 0xCAFEbabe" and a newline was decoded.
C24_Witness ==
    /\ fcall.fn = "pipe_crc_init_from_string" /\ ~fcall.is_legacy
    /\ fcall.l.line = <<"0", "x">> \o Pad(<<"5">>, 8)
                      \o <<" ", "0", "x", "d", "e", "a", "d", "b", "e", "e", "f">>
                      \o <<" ", "0", "x", "C", "A", "F", "E", "b", "a", "b", "e">>
                      \o <<"\n">>
    /\ fret # <<>> /\ fret[1].crc.n_words = 2
    /\ fret[1].crc.crc[1] = <<12, 10, 15, 14, 11, 10, 11, 14>>
    /\ pc = "client"

\* C25: a generic line whose first ten characters are "XXXXXXXXXX" decodes
\* to a record with valid = false; with the newline right after the sentinel
\* the record has no words, and the CRC fields that follow the sentinel are
\* decoded as words all the same.
C25_SentinelLine ==
    (/\ fcall.fn = "pipe_crc_init_from_string" /\ ~fcall.is_legacy
     /\ fcall.l.frame = [i \in 1..10 |-> "X"]
     /\ fcall.l.layout \in {"kernel", "trailing", "blanks"}
     /\ fcall.l.nl /\ fret # <<>>)
        => /\ fret[1].ret /\ pc # "aborted"
           /\ ~fret[1].overrun /\ ~fret[1].store_oob
           /\ ~fret[1].crc.has_valid_frame
           /\ fret[1].crc.n_words = Len(fcall.l.fields)
           /\ (fcall.l.fields = <<>> => fret[1].crc.n_words = 0)
           /\ \A i \in 1..Len(fcall.l.fields) :
                 fret[1].crc.crc[i - 1] = U32OfHex(fcall.l.fields[i])

\* A sentinel line with two fields after the sentinel was decoded: invalid
\* frame, two words, the second 0xcafebabe.
C25_Witness ==
    /\ fcall.fn = "pipe_crc_init_from_string" /\ ~fcall.is_legacy
    /\ fcall.l.frame = [i \in 1..10 |-> "X"] /\ fcall.l.layout = "kernel"
    /\ Len(fcall.l.fields) = 2 /\ fcall.l.nl
    /\ fret # <<>> /\ ~fret[1].crc.has_valid_frame /\ fret[1].crc.n_words = 2
    /\ fret[1].crc.crc[1] = <<12, 10, 15, 14, 11, 10, 11, 14>>

\* C26: whatever buffer read_crc hands to the generic decoder (at most
\* MAX_LINE_LEN characters and the terminator, with a newline at the end of
\* an 11-character field or without one), the decoder gives a word count in
\* 0..10, stores no word past crc[9] and reads nothing past the end of what
\* read_crc stored.
C26_GenericDecoderStaysInBounds ==
    (fcall.fn = "pipe_crc_init_from_string" /\ ~fcall.is_legacy /\ fret # <<>>)
        => /\ Len(fcall.l.line) <= 10 + 11 * 10 + 1
           /\ fret[1].crc.n_words \in 0..10
           /\ ~fret[1].store_oob
           /\ ~fret[1].overrun
           /\ pc # "aborted"

\* C27 (as stated): for every generic line of a frame field of ten
\* characters holding a hexadecimal number, k <= 10 fields of eight
\* hexadecimal digits and a separator, and a newline, igt_crc_to_string of
\* the decoded record gives the k numbers of the line in their order, letter
\* case apart.
C27_RoundTripAnyField ==
    (/\ fcall.fn = "pipe_crc_init_from_string" /\ ~fcall.is_legacy
     /\ Len(fcall.l.frame) = 10 /\ fcall.l.frame # [i \in 1..10 |-> "X"]
     /\ fcall.l.nl /\ Len(fret) = 2)
        => fret[2] = Concat([i \in 1..Len(fcall.l.fields) |->
                               [j \in 1..8 |-> HexDigits[HexVal(fcall.l.fields[i][j]) + 1]]
                               \o <<" ">>])

\* C27 (amended): for every generic line of a frame field of ten characters
\* holding a hexadecimal number, k <= 10 fields of eleven characters (eight
\* hexadecimal digits with " 0x" before them, with "0x" before and a blank
\* after them, or with three blanks after them), and a newline, the decoder
\* stops at the newline and igt_crc_to_string of the decoded record gives the
\* k numbers of the line in their order, letter case apart.
C27_RoundTripElevenCharacterFields ==
    (/\ fcall.fn = "pipe_crc_init_from_string" /\ ~fcall.is_legacy
     /\ Len(fcall.l.frame) = 10 /\ fcall.l.frame # [i \in 1..10 |-> "X"]
     /\ fcall.l.layout \in {"kernel", "trailing", "blanks"}
     /\ fcall.l.nl /\ fret # <<>>)
        => /\ ~fret[1].overrun /\ ~fret[1].store_oob /\ pc # "aborted"
           /\ fret[1].crc.n_words = Len(fcall.l.fields)
           /\ Len(fret) = 2 =>
                fret[2] = Concat([i \in 1..Len(fcall.l.fields) |->
                                    [j \in 1..8 |->
                                        HexDigits[HexVal(fcall.l.fields[i][j]) + 1]]
                                    \o <<" ">>])

\* A line of ten fields "0xCAFEbabe" was decoded and printed again as ten
\* times "cafebabe ".
C27_Witness ==
    /\ fcall.fn = "pipe_crc_init_from_string" /\ ~fcall.is_legacy
    /\ fcall.l.layout = "kernel" /\ Len(fcall.l.fields) = 10 /\ fcall.l.nl
    /\ fcall.l.frame = <<"0", "x">> \o Pad(<<"5">>, 8)
    /\ fcall.l.fields[10] = <<"C", "A", "F", "E", "b", "a", "b", "e">>
    /\ Len(fret) = 2 /\ Len(fret[2]) = 90
    /\ SubSeq(fret[2], 82, 90) = <<"c", "a", "f", "e", "b", "a", "b", "e", " ">>

\* C28 (as stated): crc_sanity_checks raises the powered-down warning
\* exactly when every word of the record is 0xffffffff, and the all-zero
\* warning exactly when the record has at least one word and all its words
\* are zero.
C28_WarnsWhenEveryWord ==
    (fcall.fn = "crc_sanity_checks" /\ fret # <<>>)
        => /\ fret[1].powered_down
                <=> \A i \in 0..(fcall.crc.n_words - 1) : fcall.crc.crc[i] = Ones32
           /\ fret[1].all_zero
                <=> /\ fcall.crc.n_words >= 1
                    /\ \A i \in 0..(fcall.crc.n_words - 1) : fcall.crc.crc[i] = Zero32

\* C28 (amended): crc_sanity_checks raises the powered-down warning exactly
\* when at least one word of the record is 0xffffffff (once for each such
\* word), and the all-zero warning exactly when no word of the record is
\* different from zero, a record without words included.
C28_WarnsWhenAnyWord ==
    (fcall.fn = "crc_sanity_checks" /\ fret # <<>>)
        => /\ fret[1].powered_down
                <=> \E i \in 0..(fcall.crc.n_words - 1) : fcall.crc.crc[i] = Ones32
           /\ fret[1].all_zero
                <=> ~\E i \in 0..(fcall.crc.n_words - 1) : fcall.crc.crc[i] # Zero32
           /\ fcall.crc.n_words = 0 => fret[1].all_zero /\ ~fret[1].powered_down

\* A record of two words, 0xffffffff and 0x1f, was checked: the powered-down
\* warning was raised, the all-zero warning was not.
C28_Witness ==
    /\ fcall.fn = "crc_sanity_checks" /\ fcall.crc.n_words = 2
    /\ fcall.crc.crc[0] = Ones32 /\ fcall.crc.crc[1] = <<0, 0, 0, 0, 0, 0, 1, 15>>
    /\ fret # <<>> /\ fret[1].powered_down /\ ~fret[1].all_zero

\* C29: the library has no guard against a second session on a pipe that
\* has a Capturing session: unless a call to the kernel is refused, the
\* construction of the second session gives a live session on the same pipe
\* with its own descriptors, and its start leaves both sessions Capturing;
\* on the legacy ABI that start writes the disable command of the pipe the
\* first session captures on, and then the second session's source.
C29_SecondSessionNotRefused ==
    [][other' # <<>> /\ pc = "client" /\ pc' # "aborted" =>
          /\ lastCall' = "new" =>
                /\ other' = <<pipe_crc>> /\ pipe_crc'.pipe = pipe_crc.pipe
                /\ pipe_crc'.ctl_fd \notin DOMAIN fdt /\ IsOpen(fdt', pipe_crc'.ctl_fd, "ctl")
                /\ Capturing(other'[1], fdt', ctlLog')
          /\ lastCall' = "start" /\ doStartRet' /\ Capturing(other[1], fdt, ctlLog) =>
                /\ Capturing(pipe_crc', fdt', ctlLog')
                /\ Capturing(other'[1], fdt', ctlLog')
                /\ pipe_crc'.is_legacy =>
                      ctlLog' = ctlLog \o <<DisableCmd,
                                            <<"pipe", kmstest_pipe_name(other[1].pipe),
                                              pipe_crc_source_name(pipe_crc.source)>>>>
      ]_vars

\* Two sessions of the generic ABI on one pipe, both Capturing, each with
\* its own open data file; the second start has returned.
C29_Witness ==
    /\ other # <<>> /\ pc = "client" /\ lastCall = "start" /\ doStartRet
    /\ ~other[1].is_legacy /\ ~pipe_crc.is_legacy
    /\ other[1].pipe = pipe_crc.pipe
    /\ other[1].crc_fd # pipe_crc.crc_fd
    /\ IsOpen(fdt, other[1].crc_fd, "data") /\ IsOpen(fdt, pipe_crc.crc_fd, "data")
    /\ Capturing(other[1], fdt, ctlLog) /\ Capturing(pipe_crc, fdt, ctlLog)
    /\ Len(ctlLog) = 2

\* C30: in igt_pipe_crc_get_crcs a read whose line fails to decode takes no
\* slot and is not counted, and a decoded line takes the next slot: the
\* count returned is the number of lines decoded, and slots 0..n-1 hold
\* their records in the order they were read.
C30_GetCrcsCountsDecodedLines ==
    [][pc = "get_crcs" /\ pc' # "aborted" =>
          /\ \A i \in 1..n : i <= Len(crcs) => crcs'[i] = crcs[i]
          /\ lastRet' # "line" => n' = n
          /\ lastRet' = "line" =>
                /\ n' = n + 1
                /\ n' <= Len(crcs')
                /\ crcs'[n'].line = consumed'
                /\ consumed' = consumed + 1
      ]_vars

\* C31: decoding a line changes nothing but the output record: a call of
\* pipe_crc_init_from_string leaves the session (its handles, flags, ABI
\* flag, pipe and source), the descriptors and the line as they were and
\* stores nothing outside the record, for both grammars, whether the decode
\* succeeds or fails.
C31_DecodeTouchesOnlyTheRecord ==
    [][fcall.fn = "pipe_crc_init_from_string" /\ fret = <<>> /\ fret' # <<>> =>
          /\ pipe_crc' = pipe_crc /\ fdt' = fdt /\ ctlLog' = ctlLog
          /\ other' = other /\ obj' = obj
          /\ fcall'.l.line = fcall.l.line
          /\ ~fret'[1].store_oob
      ]_vars

\* C32: the sanity check is not fatal and leaves the record alone: for every
\* record, records of all-ones words and of zero words included,
\* crc_sanity_checks returns without failing the test and the record the
\* caller of igt_pipe_crc_collect_crc gets is the one that was checked.
C32_SanityCheckOnlyWarns ==
    (fcall.fn = "crc_sanity_checks" /\ fret # <<>>)
        => /\ ~fret[1].fail /\ pc = "client" /\ abortReason = "none"
           /\ fret[1].crc = fcall.crc

\* A record of two all-ones words was checked: the warning was raised, the
\* test goes on with the same record.
C32_Witness ==
    /\ fcall.fn = "crc_sanity_checks" /\ fcall.crc.n_words = 2
    /\ fcall.crc.crc[0] = Ones32 /\ fcall.crc.crc[1] = Ones32
    /\ fret # <<>> /\ fret[1].powered_down /\ ~fret[1].all_zero
    /\ fret[1].crc = fcall.crc /\ pc = "client"

\* C33: a read that gives EAGAIN is accepted only on a session built in
\* non-blocking mode, where read_crc returns 0 for it; on a session built in
\* blocking mode the assertion of read_crc fails.
C33_EagainOnlyWhenNonblocking ==
    [][pc = "rc_rest" /\ bytes_read = "EAGAIN" =>
          IF O_NONBLOCK \subseteq pipe_crc.flags
          THEN lastRet' = "zero" /\ pc' # "aborted" /\ abortReason' = "none"
               /\ consumed' = consumed /\ out' = out /\ crcs' = crcs
          ELSE pc' = "aborted" /\ abortReason' = "read_crc:EAGAIN"
      ]_vars

\* A read of read_one_crc on a started session built with igt_pipe_crc_new
\* gave EAGAIN and the assertion of read_crc ended the process.
C33_Witness ==
    /\ pc = "aborted" /\ abortReason = "read_crc:EAGAIN"
    /\ lastCall = "read_one" /\ obj = "live"
    /\ ~(O_NONBLOCK \subseteq pipe_crc.flags)
    /\ IsOpen(fdt, pipe_crc.crc_fd, "data") /\ timer = "off"

\* C34: the watchdog is armed only while one read of read_crc is in
\* progress: read_crc arms it right before the read and disarms it right
\* after, so it is off whenever read_crc has returned (between the retries
\* of read_one_crc and between the turns of igt_pipe_crc_get_crcs too), and
\* a process that ended with the watchdog armed was ended by it, in a read
\* that did not return in time.
C34_WatchdogOnlyAroundTheRead ==
    /\ pc \in {"rc_read", "rc_reset"} => timer = "armed"
    /\ pc \notin {"rc_read", "rc_reset", "aborted"} => timer = "off"
    /\ pc = "aborted" /\ timer = "armed" =>
          abortReason = "igt_set_timeout" /\ bytes_read = "none"
    /\ pc = "aborted" /\ abortReason # "igt_set_timeout" => timer = "off"

\* Between two attempts of read_one_crc: read_crc returned 0, the next call
\* has not armed the watchdog yet.
C34_Witness ==
    /\ pc = "rc_set" /\ lastCall = "read_one" /\ lastRet = "zero"
    /\ IsOpen(fdt, pipe_crc.crc_fd, "data") /\ timer = "off"

\* C35: on a Capturing session whose data file has a line to give, under a
\* fair data source, a public read_one_crc that has begun ends: it returns
\* with what the first read that yielded bytes gave (a record, or the error
\* of a line that does not decode), unless the process is ended in between
\* by the watchdog or by the EAGAIN assertion. Zero-byte reads only make it
\* read again.
C35_ReadOneCrcReturns ==
    (/\ pc = "rc_set" /\ lastCall = "read_one"
     /\ wasCapturing /\ consumed < MaxLines)
    ~> ((Returned("read_one") /\ lastRet # "zero") \/ pc = "aborted")

\* The public read returned a record after a zero-byte read made it retry.
C35_Witness ==
    /\ Returned("read_one") /\ lastRet = "line" /\ sawZero
    /\ wasCapturing /\ consumed = callStart + 1

\* The statements of read_crc and of its caller's loop.
InReadCrc == pc \in {"rc_set", "rc_read", "rc_reset", "rc_rest"}

C37_DataDescriptorFollowsAbi ==
    [][obj' = "live" =>
         LET fd == pipe_crc'.crc_fd
             open == IsOpen(fdt', fd, "data")
         IN  IF pipe_crc'.is_legacy
             THEN /\ open
                  /\ obj = "live" => fd = pipe_crc.crc_fd /\ IsOpen(fdt, fd, "data")
             ELSE /\ fd = -1 \/ open
                  /\ lastCall' \in {"new", "stop"} => fd = -1
                  /\ lastCall' = "start" /\ pc' # "aborted" => open
                  /\ lastCall' = "collect" /\ pc' = "collect_read" => open
                  /\ lastCall' = "collect" /\ pc' = "client" => fd = -1
                  /\ lastCall' \in {"read_one", "get_crcs"} =>
                        fd = pipe_crc.crc_fd /\ (open <=> IsOpen(fdt, fd, "data"))]_vars

\* A legacy session started and stopped: the descriptor opened in
\* construction is still the open data file.
C37_Witness ==
    /\ obj = "live" /\ pipe_crc.is_legacy /\ Returned("stop")
    /\ Len(ctlLog) >= 2 /\ ctlLog[Len(ctlLog)] = DisableCmd
    /\ IsOpen(fdt, pipe_crc.crc_fd, "data")

\* Two records carry the same word count and the same words.
SameWords(a, b) ==
    /\ a.n_words = b.n_words
    /\ \A i \in 0..(a.n_words - 1) : a.crc[i] = b.crc[i]

\* C38: igt_assert_crc_equal looks at the CRC words only: two different
\* records collected on one session that carry the same word count and the
\* same words pass it, whatever their frame numbers and validity flags.
C38_EqualLooksAtWordsOnly ==
    (/\ fcall.fn = "igt_assert_crc_equal" /\ fret # <<>>
     /\ <<fcall.a, fcall.b>> \in TwoCollected
     /\ SameWords(fcall.a, fcall.b))
    => fret[1] /\ pc = "client" /\ abortReason = "none"

\* Two generic records with the same word, one with a frame number and one
\* without, have passed the comparison.
C38_Witness ==
    /\ fcall.fn = "igt_assert_crc_equal" /\ fret = <<TRUE>> /\ pc = "client"
    /\ <<fcall.a, fcall.b>> \in TwoCollected
    /\ fcall.a.n_words >= 1 /\ SameWords(fcall.a, fcall.b)
    /\ fcall.a.frame # fcall.b.frame
    /\ fcall.a.has_valid_frame /\ ~fcall.b.has_valid_frame

\* C39: on a device of the generic ABI, when the process of a live session
\* has ended abnormally and pipe_crc_exit_handler is about to run,
\* igt_pipe_crc_reset with the debugfs directory of the device at hand
\* writes "none" to crtc-<N>/crc/control of the CRTC directories, that of
\* the session's pipe among them, and no legacy disable command.
C39_ResetWritesNoneToEveryCrtc ==
    (/\ pc = "aborted" /\ Installed /\ ~handlerRan
     /\ kernel = "generic" /\ obj = "live")
    => pipe_crc_exit_handler(kernel, pipe_crc, ctlLog, TRUE)
          = Append(ctlLog, <<"none">>)

====
